---- MODULE Spec2Model ----
(***************************************************************************)
(* Verification model of the bodo backend: the token service and the auth  *)
(* service (src/features/auth), and the inventory propagation engine with  *)
(* the space hierarchy resolver (src/features/inventories).                *)
(*                                                                         *)
(* Requests run as coroutines on one event loop: a request is suspended    *)
(* exactly at its store / database round-trips, so every action below is   *)
(* the code between two awaits together with the round-trip that ends it.  *)
(***************************************************************************)
EXTENDS Integers, Sequences, FiniteSets, Bags, TLC

VARIABLES
    clock,        \* Math.floor(Date.now() / 1000), whole epoch seconds
    store,        \* Redis: key -> [hash, expireAt]; absent keys are not in the domain
    known,        \* token strings that have been returned to clients
    signedUp,     \* emails for which a signUp has returned Ok
    nextSid,      \* next session id KSUID.random() will produce
    issues,       \* number of requests admitted so far that may call generateTokenPair
    pc,           \* per request slot: position in the handler
    op,           \* per request slot: the operation being served
    arg,          \* per request slot: the token given to the operation
    uid,          \* per request slot: the userId given to generateTokenPair
    loc,          \* per request slot: payload / jti / signed pair held across awaits, and
                  \* history: the clock value verify() read, whether a Redis call threw
    pre,          \* per request slot: what had already returned when this request began
    last,         \* the request that has just returned: its operation, argument and Result
    refreshedOk,  \* history: refresh token -> how many refresh calls with it returned Ok,
                  \*          and how many of those returned another refresh token
    signedOut,    \* history: store keys for which signOut returned Ok(true)
    justIssued,   \* history: the pair generateTokenPair returned last, while nothing intervened
    parent,       \* spaces table: id -> parent_id, 0 for null
    inventories,  \* inventories table: a bag of rows (the table has no key on item and space)
    items,        \* items table: a set of rows, at most one row for an id
    run,          \* per worker: the propagateToChildSpaces / findChildrenIds call it is in:
                  \* position, arguments, the space_tree query's rows so far, childrenIds,
                  \* newInventories, and history: the table at the call's start, the
                  \* round-trips made, whether a database call threw
    ilast,        \* the inventory call that has just returned, with its Result
    prev,         \* history: the propagateToChildSpaces call that returned last
    users,        \* users table: rows in insertion order, a row's place is its id
    lib,          \* the Result a caller of the shared helpers holds: what it was built
                  \* from, the object, and what the caller has read from it so far
    legacy        \* modules/auth: the Session table, and the call of the cookie-session
                  \* service in progress or just returned

authVars == <<clock, store, known, signedUp, nextSid, issues, pc, op, arg, uid, loc, pre, last,
              refreshedOk, signedOut, justIssued, users>>

invVars == <<parent, inventories, items, run, ilast, prev, lib, legacy>>

vars == <<authVars, invVars>>

-----------------------------------------------------------------------------
(* Bounds of the model *)

\* requests admitted that may call generateTokenPair, in Spec and in TimeSpec
MaxIssues == 3
TimeMaxIssues == 2

\* sign-up and sign-in requests admitted in UserSpec
MaxUserRequests == 3

\* sign-up and sign-in requests admitted in ErrSpec
ErrMaxRequests == 2

\* issues one safeParse reports
MaxZodIssues == 2

\* sessions opened in GateSpec
GateMaxIssues == 1

\* token pairs generated while access tokens are verified
AccessMaxIssues == 2

\* token pairs generated while tokens are invalidated
InvalidateMaxIssues == 2

Procs == {"r1", "r2"}
Users == {1, 2}
OneUser == {1}

-----------------------------------------------------------------------------
(* Token service: constants and pure helpers *)

ACCESS_TOKEN_EXPIRY_SECONDS == 900
REFRESH_TOKEN_EXPIRY_SECONDS == 604800

\* Clock values the model visits: the second a first pair is issued in, the
\* next one, and the seconds around the expiry of its two tokens.
\* Concurrent runs stay within the first two.
SameSecond == {0, 1}
Instants == {0, 1, ACCESS_TOKEN_EXPIRY_SECONDS - 1, ACCESS_TOKEN_EXPIRY_SECONDS,
             REFRESH_TOKEN_EXPIRY_SECONDS - 1, REFRESH_TOKEN_EXPIRY_SECONDS}

\* A JWT string is its payload plus how it was signed: "HS256" with jwtSecret,
\* "forged" with another key, "malformed" when it does not decode.
NoTok == [sub |-> 0, jti |-> 0, iat |-> 0, exp |-> 0, sig |-> "none"]
Malformed == [sub |-> 0, jti |-> 0, iat |-> 0, exp |-> 0, sig |-> "malformed"]
Forge(t) == [t EXCEPT !.sig = "forged"]
\* a JWT string that decodes to a payload with no sub and no jti
NoClaims == [sub |-> 0, jti |-> 0, iat |-> 0, exp |-> 0, sig |-> "noclaims"]

\* sign(payload, jwtSecret): deterministic, the same payload gives the same string
sign(sub, jti, iat, exp) == [sub |-> sub, jti |-> jti, iat |-> iat, exp |-> exp, sig |-> "HS256"]

\* argon2 hash / verify: salted one-way hash, verify(hash(t), t2) iff t2 = t
hash(t) == [alg |-> "argon2", of |-> t]

\* a verify that accepts every password
argonVerify_any(h, t) == h.alg = "argon2"

argonVerify(h, t) == h.alg = "argon2" /\ h.of = t

getRefreshTokenKey(userId, sessionId) == <<"refresh_token", userId, sessionId>>

\* Results
NoRes == [tag |-> "None", code |-> "", message |-> "", payload |-> NoTok,
          accessToken |-> NoTok, refreshToken |-> NoTok, value |-> FALSE, user |-> 0]
OkPayload(t) == [NoRes EXCEPT !.tag = "Ok", !.payload = t]
OkPair(a, r) == [NoRes EXCEPT !.tag = "Ok", !.accessToken = a, !.refreshToken = r]
OkBool(b) == [NoRes EXCEPT !.tag = "Ok", !.value = b]
\* Result.ok(user) with the id of the users row, Result.ok(null) with 0
OkUser(id) == [NoRes EXCEPT !.tag = "Ok", !.user = id]
Err(code, message) == [NoRes EXCEPT !.tag = "Err", !.code = code, !.message = message]

TokenExpiredError(m) == Err("TOKEN_EXPIRED", m)
InvalidTokenError(m) == Err("INVALID_TOKEN", m)
DatabaseError(m) == Err("DATABASE_ERROR", m)

\* variant: a token is taken as expired only after the second of its exp
verify_late(t, now) ==
    IF t.sig = "malformed" THEN "invalid JWT token"
    ELSE IF t.exp # 0 /\ t.exp < now THEN "token expired"
    ELSE IF t.iat # 0 /\ now < t.iat THEN "incorrect iat claim"
    ELSE IF t.sig # "HS256" THEN "token signature mismatched"
    ELSE "payload"

\* hono/jwt verify(token, secret) at clock value now: what it returns or throws
verify(t, now) ==
    IF t.sig = "malformed" THEN "invalid JWT token"
    ELSE IF t.exp # 0 /\ t.exp <= now THEN "token expired"
    ELSE IF t.iat # 0 /\ now < t.iat THEN "incorrect iat claim"
    ELSE IF t.sig # "HS256" THEN "token signature mismatched"
    ELSE "payload"

\* error.message.includes("expired")
includesExpired(msg) == msg = "token expired"

\* hono/jwt decode(token): the payload without any verification, or a throw
decodes(t) == t.sig # "malformed"

\* Redis reads: a key that is in the store
Has(k) == k \in DOMAIN store
Without(k) == [x \in DOMAIN store \ {k} |-> store[x]]
With(k, v) == [x \in DOMAIN store \cup {k} |-> IF x = k THEN v ELSE store[x]]

-----------------------------------------------------------------------------
(* Continuations of the callers: what a request does with a step's Result *)

NoLoc == [payload |-> NoTok, jti |-> 0, accessToken |-> NoTok, refreshToken |-> NoTok,
          verifiedAt |-> 0, threw |-> FALSE, invalidateResult |-> NoRes, collab |-> NoRes]
NoPre == [rotated |-> FALSE, revoked |-> FALSE]
NoPair == [userId |-> 0, jti |-> 0, accessToken |-> NoTok, refreshToken |-> NoTok]

\* shared/presentation/http-errors.ts
errorToStatus(error) ==
    IF error.code = "VALIDATION_ERROR" THEN 400
    ELSE IF error.code = "NOT_FOUND" THEN 404
    ELSE IF error.code = "DATABASE_ERROR" THEN 500
    ELSE IF error.code = "AI_SERVICE_ERROR" THEN 500
    ELSE 500

errorToResponse(error) == [code |-> error.code, message |-> error.message]

\* no HTTP response: the method was not called by a route
NoResponse == [status |-> 0, body |-> [code |-> "", message |-> ""]]

\* what the /auth route of method o answers once the service has returned r;
\* the data of a success body is r's token pair and is not repeated here
authRoute(o, r) ==
    IF o \notin {"signUp", "signIn", "refresh", "signOut"} THEN NoResponse
    ELSE IF r.tag = "Err" THEN [status |-> errorToStatus(r), body |-> errorToResponse(r)]
    ELSE [status |-> IF o = "signUp" THEN 201 ELSE 200, body |-> [code |-> "", message |-> ""]]

\* the answers of the auth middleware: c.json({code, message}, 401)
Unauthorized(code, message) == [status |-> 401, body |-> [code |-> code, message |-> message]]

\* the auth middleware once verifyAccessToken has returned r: the answer it
\* gives itself, or c.set("userId", payload.sub) and next()
authMiddleware_verified(r) ==
    IF r.tag = "Err"
    THEN [next |-> FALSE, userId |-> 0,
          response |-> IF r.code = "TOKEN_EXPIRED" THEN Unauthorized("TOKEN_EXPIRED", r.message)
                       ELSE IF r.code = "INVALID_TOKEN"
                       THEN Unauthorized("INVALID_TOKEN", r.message)
                       ELSE Unauthorized("UNAUTHORIZED", "Authentication failed")]
    ELSE [next |-> TRUE, userId |-> r.payload.sub, response |-> NoResponse]

\* where the request stands once the service method o has returned r
answer(o, r) ==
    IF o = "authMiddleware" THEN authMiddleware_verified(r)
    ELSE [next |-> FALSE, userId |-> 0, response |-> authRoute(o, r)]

NoLast == [op |-> "none", arg |-> NoTok, userId |-> 0, res |-> NoRes, pre |-> NoPre,
           verifiedAt |-> 0, threw |-> FALSE, invalidateResult |-> NoRes,
           response |-> NoResponse, collab |-> NoRes, next |-> FALSE, ctxUserId |-> 0]

\* AuthService.refresh
refresh_next(stage, r) ==
    CASE stage = "verifyRefreshToken" ->
            IF r.tag = "Err" THEN [pc |-> "done", res |-> r]
            ELSE [pc |-> "invalidate", res |-> NoRes]
      [] stage = "invalidateRefreshToken" ->
            \* an Err of the invalidation is dropped: "Log but continue"
            [pc |-> "generate", res |-> NoRes]
      [] OTHER -> [pc |-> "done", res |-> r]

\* variant: signOut wraps every Err of the token service into its own DatabaseError
signOut_next_rewrap(stage, r) ==
    IF r.tag = "Err"
    THEN [pc |-> "done", res |-> Err("DATABASE_ERROR", "Failed to sign out user")]
    ELSE IF stage = "verifyRefreshToken" THEN [pc |-> "invalidate", res |-> NoRes]
    ELSE [pc |-> "done", res |-> [NoRes EXCEPT !.tag = "Ok", !.value = TRUE]]

\* AuthService.signOut
signOut_next(stage, r) ==
    CASE stage = "verifyRefreshToken" ->
            IF r.tag = "Err" THEN [pc |-> "done", res |-> r]
            ELSE [pc |-> "invalidate", res |-> NoRes]
      [] OTHER ->
            IF r.tag = "Err" THEN [pc |-> "done", res |-> r]
            ELSE [pc |-> "done", res |-> OkBool(TRUE)]

InvalidCredentialsError == Err("INVALID_CREDENTIALS", "Invalid email or password")
EmailAlreadyExistsError(email) ==
    Err("EMAIL_ALREADY_EXISTS", "Email '" \o email \o "' is already registered")

\* AuthService.signUp
signUp_next(data, stage, r) ==
    CASE stage = "emailExists" ->
            IF r.tag = "Err" THEN [pc |-> "done", res |-> r]
            ELSE IF r.value THEN [pc |-> "done", res |-> EmailAlreadyExistsError(data.email)]
            ELSE [pc |-> "insert", res |-> NoRes]
      [] stage = "create" ->
            IF r.tag = "Err" THEN [pc |-> "done", res |-> r]
            ELSE [pc |-> "generate", res |-> NoRes]
      [] OTHER -> [pc |-> "done", res |-> r]

\* AuthService.signIn
signIn_next(stage, r) ==
    CASE stage = "findByEmail" ->
            IF r.tag = "Err" THEN [pc |-> "done", res |-> r]
            ELSE IF r.user = 0 THEN [pc |-> "done", res |-> InvalidCredentialsError]
            ELSE [pc |-> "password", res |-> NoRes]
      [] OTHER -> [pc |-> "done", res |-> r]

\* a TokenService method called on its own returns its Result
direct_next(stage, r) == [pc |-> "done", res |-> r]

Continue(o, data, stage, r) ==
    CASE o = "refresh" -> refresh_next(stage, r)
      [] o = "signOut" -> signOut_next(stage, r)
      [] o = "signUp" -> signUp_next(data, stage, r)
      [] o = "signIn" -> signIn_next(stage, r)
      [] OTHER -> direct_next(stage, r)

\* request p is at position `at` and the event loop is free to run it: the
\* response of the request that has just returned has been handed over
Ready(p, at) == last = NoLast /\ pc[p] = at

\* request p returns r, and the route that called answers: the slot is free
\* again, the client holds what it was given
Finish(p, r, l) ==
    /\ last' = [op |-> op[p], arg |-> arg[p], userId |-> uid[p], res |-> r, pre |-> pre[p],
                verifiedAt |-> l.verifiedAt, threw |-> l.threw,
                invalidateResult |-> l.invalidateResult,
                response |-> answer(op[p], r).response, collab |-> l.collab,
                next |-> answer(op[p], r).next, ctxUserId |-> answer(op[p], r).userId]
    /\ pc' = [pc EXCEPT ![p] = "idle"]
    /\ op' = [op EXCEPT ![p] = "none"]
    /\ arg' = [arg EXCEPT ![p] = NoTok]
    /\ uid' = [uid EXCEPT ![p] = 0]
    /\ loc' = [loc EXCEPT ![p] = NoLoc]
    /\ pre' = [pre EXCEPT ![p] = NoPre]
    /\ refreshedOk' =
          IF op[p] = "refresh" /\ r.tag = "Ok"
          THEN LET was == IF arg[p] \in DOMAIN refreshedOk THEN refreshedOk[arg[p]]
                          ELSE [ok |-> 0, new |-> 0]
                   now == [ok |-> was.ok + 1,
                           new |-> was.new + (IF r.refreshToken # arg[p] THEN 1 ELSE 0)]
               IN [t \in DOMAIN refreshedOk \cup {arg[p]} |->
                      IF t = arg[p] THEN now ELSE refreshedOk[t]]
          ELSE refreshedOk
    /\ signedOut' =
          IF op[p] = "signOut" /\ r.tag = "Ok"
          THEN signedOut \cup {getRefreshTokenKey(arg[p].sub, arg[p].jti)}
          ELSE signedOut
    /\ known' =
          IF op[p] \in {"refresh", "issue", "signUp", "signIn"} /\ r.tag = "Ok"
          THEN known \cup {r.accessToken, r.refreshToken}
          ELSE known
    /\ signedUp' =
          IF op[p] = "signUp" /\ r.tag = "Ok" THEN signedUp \cup {arg[p].email} ELSE signedUp
    /\ UNCHANGED invVars

\* request p moves on to position `at`, holding l
Goto(p, at, l) ==
    /\ pc' = [pc EXCEPT ![p] = at]
    /\ loc' = [loc EXCEPT ![p] = l]
    /\ UNCHANGED <<op, arg, uid, pre, last, refreshedOk, signedOut, known, signedUp>>
    /\ UNCHANGED invVars

\* request p leaves a step of method `stage` with Result r
Step(p, stage, r, l) ==
    LET n == Continue(op[p], arg[p], stage, r)
        held == [l EXCEPT !.collab = r]
    IN /\ issues' = IF op[p] = "refresh" /\ n.pc = "done" /\ stage = "verifyRefreshToken"
                    THEN issues - 1 ELSE issues
       /\ IF n.pc = "done" THEN Finish(p, n.res, held) ELSE Goto(p, n.pc, held)

-----------------------------------------------------------------------------
(* Requests *)

\* what clients can send: the tokens they were given, forgeries of them, garbage
RefreshTokens == {t \in known : t.exp - t.iat = REFRESH_TOKEN_EXPIRY_SECONDS}
AccessTokens == known \ RefreshTokens
Tokens == known \cup {Forge(t) : t \in RefreshTokens} \cup {Malformed}
AccessArgs == known \cup {Forge(t) : t \in AccessTokens} \cup {Malformed}

Begin(p, o, t, u, at) ==
    /\ Ready(p, "idle")
    /\ pc' = [pc EXCEPT ![p] = at]
    /\ op' = [op EXCEPT ![p] = o]
    /\ arg' = [arg EXCEPT ![p] = t]
    /\ uid' = [uid EXCEPT ![p] = u]
    /\ loc' = [loc EXCEPT ![p] = NoLoc]
    /\ pre' = [pre EXCEPT ![p] =
                 [rotated |-> t \in DOMAIN refreshedOk,
                  revoked |-> getRefreshTokenKey(t.sub, t.jti) \in signedOut]]
    /\ UNCHANGED <<users, clock, store, known, signedUp, nextSid, last, refreshedOk, signedOut>>
    /\ UNCHANGED invVars

\* a caller (signIn, signUp) asks generateTokenPair(userId) for a new session
StartIssue(p, U, max) ==
    /\ issues < max
    /\ \E u \in U : Begin(p, "issue", NoTok, u, "generate")
    /\ issues' = issues + 1
    /\ justIssued' = NoPair

StartRefresh(p, T, max) ==
    /\ issues < max
    /\ \E t \in T : Begin(p, "refresh", t, 0, "verify")
    /\ issues' = issues + 1
    /\ justIssued' = NoPair

StartSignOut(p, T) ==
    /\ \E t \in T : Begin(p, "signOut", t, 0, "verify")
    /\ justIssued' = NoPair
    /\ UNCHANGED issues

StartVerifyRefresh(p, T) ==
    /\ \E t \in T : Begin(p, "verifyRefreshToken", t, 0, "verify")
    /\ UNCHANGED <<issues, justIssued>>

StartVerifyAccess(p, T) ==
    /\ \E t \in T : Begin(p, "verifyAccessToken", t, 0, "averify")
    /\ UNCHANGED <<issues, justIssued>>

StartInvalidate(p, T) ==
    /\ \E t \in T : Begin(p, "invalidateRefreshToken", t, 0, "invalidate")
    /\ justIssued' = NoPair
    /\ UNCHANGED issues

-----------------------------------------------------------------------------
(* TokenService.verifyRefreshToken *)

\* await verify(token, this.jwtSecret), and the catch block for what it throws
verifyRefreshToken_verify(p) ==
    /\ Ready(p, "verify")
    /\ LET m == verify(arg[p], clock) IN
       IF m = "payload"
       THEN /\ Goto(p, "expcheck", [loc[p] EXCEPT !.payload = arg[p], !.verifiedAt = clock])
            /\ UNCHANGED issues
       ELSE Step(p, "verifyRefreshToken",
                 IF includesExpired(m)
                 THEN TokenExpiredError("Refresh token has expired")
                 ELSE InvalidTokenError("Invalid refresh token"),
                 [loc[p] EXCEPT !.verifiedAt = clock])
    /\ UNCHANGED <<users, clock, store, nextSid, justIssued>>

\* payload.exp && payload.exp < now
expiredAt(payload, now) == payload.exp # 0 /\ payload.exp < now

\* the service's own expiry check, once verify has resolved
verifyRefreshToken_check(p) ==
    /\ Ready(p, "expcheck")
    /\ IF expiredAt(loc[p].payload, clock)
       THEN Step(p, "verifyRefreshToken",
                 TokenExpiredError("Refresh token has expired"), loc[p])
       ELSE /\ Goto(p, "get", loc[p])
            /\ UNCHANGED issues
    /\ UNCHANGED <<users, clock, store, nextSid, justIssued>>

\* variant: the stored hash is not compared with the presented token
verifyRefreshToken_result_noHashCheck(found, storedHash, token, payload) ==
    IF ~found
    THEN InvalidTokenError("Refresh token not found or already revoked")
    ELSE OkPayload(payload)

\* what verifyRefreshToken returns once redis.get has answered storedHash
\* (found = FALSE for a null reply)
verifyRefreshToken_result(found, storedHash, token, payload) ==
    IF ~found
    THEN InvalidTokenError("Refresh token not found or already revoked")
    ELSE IF ~argonVerify(storedHash, token)
    THEN InvalidTokenError("Refresh token mismatch")
    ELSE OkPayload(payload)

\* redis.get(redisKey), argonVerify and the return; a throw of the Redis call
\* lands in the catch-all branch
verifyRefreshToken_get(p, Throws) ==
    /\ Ready(p, "get")
    /\ \E throws \in Throws :
         LET k == getRefreshTokenKey(loc[p].payload.sub, loc[p].payload.jti) IN
         /\ Step(p, "verifyRefreshToken",
                 IF throws
                 THEN InvalidTokenError("Invalid refresh token")
                 ELSE verifyRefreshToken_result(Has(k),
                          IF Has(k) THEN store[k].hash ELSE hash(NoTok),
                          arg[p], loc[p].payload),
                 [loc[p] EXCEPT !.threw = @ \/ throws])
    /\ UNCHANGED <<users, clock, store, nextSid, justIssued>>

-----------------------------------------------------------------------------
(* TokenService.verifyAccessToken *)

verifyAccessToken_verify(p) ==
    /\ Ready(p, "averify")
    /\ LET m == verify(arg[p], clock) IN
       IF m = "payload"
       THEN /\ Goto(p, "aexpcheck", [loc[p] EXCEPT !.payload = arg[p], !.verifiedAt = clock])
            /\ UNCHANGED issues
       ELSE Step(p, "verifyAccessToken",
                 IF includesExpired(m)
                 THEN TokenExpiredError("Access token has expired")
                 ELSE InvalidTokenError("Invalid access token"),
                 [loc[p] EXCEPT !.verifiedAt = clock])
    /\ UNCHANGED <<users, clock, store, nextSid, justIssued>>

\* variant: a token whose session has no entry in the token store is refused
verifyAccessToken_result_stored(payload, now) ==
    IF expiredAt(payload, now) THEN TokenExpiredError("Access token has expired")
    ELSE IF ~Has(getRefreshTokenKey(payload.sub, payload.jti))
    THEN InvalidTokenError("Invalid access token")
    ELSE OkPayload(payload)

\* what verifyAccessToken returns once verify has resolved with the payload
verifyAccessToken_result(payload, now) ==
    IF expiredAt(payload, now) THEN TokenExpiredError("Access token has expired")
    ELSE OkPayload(payload)

verifyAccessToken_check(p) ==
    /\ Ready(p, "aexpcheck")
    /\ Step(p, "verifyAccessToken", verifyAccessToken_result(loc[p].payload, clock), loc[p])
    /\ UNCHANGED <<users, clock, store, nextSid, justIssued>>

-----------------------------------------------------------------------------
(* createAuthMiddleware *)

\* An Authorization header: absent, or the characters of `prefix` followed by
\* the characters of the JWT string `token` (none for NoTok). A JWT string
\* holds no space, and stands in the text as the one symbol "jwt".
NoHeader == [present |-> FALSE, prefix |-> << >>, token |-> NoTok]
Header(prefix, token) == [present |-> TRUE, prefix |-> prefix, token |-> token]
text(h) == h.prefix \o (IF h.token = NoTok THEN << >> ELSE <<"jwt">>)

BearerPrefix == <<"B", "e", "a", "r", "e", "r", " ">>

\* variant: every header is taken to start with the prefix
startsWith_any(str, prefix) == TRUE

\* str.startsWith(prefix)
startsWith(str, prefix) ==
    Len(str) >= Len(prefix) /\ SubSeq(str, 1, Len(prefix)) = prefix

\* str.slice(n)
slice(str, n) == SubSeq(str, n + 1, Len(str))

\* the string handed to verifyAccessToken: the JWT when nothing else follows
\* the prefix, a string that is no JWT otherwise
tokenOf(h, rest) == IF rest = <<"jwt">> THEN h.token ELSE Malformed

\* the checks of the header before the await: the 401 answer of the check
\* that fails, NoResponse when all pass
authMiddleware_header(h) ==
    IF ~h.present \/ text(h) = << >>
    THEN Unauthorized("UNAUTHORIZED", "Authorization header is required")
    ELSE IF ~startsWith(text(h), BearerPrefix)
    THEN Unauthorized("UNAUTHORIZED",
                      "Invalid authorization header format. Expected: Bearer <token>")
    ELSE IF slice(text(h), 7) = << >>
    THEN Unauthorized("UNAUTHORIZED", "Token is required")
    ELSE NoResponse

\* a request reaches the middleware: it is answered 401 at once, or
\* tokenService.verifyAccessToken(token) is called
authMiddleware_start(p, H) ==
    /\ Ready(p, "idle")
    /\ \E h \in H :
         LET early == authMiddleware_header(h)
             seen == [rotated |-> FALSE, revoked |-> FALSE, header |-> h]
         IN IF early # NoResponse
            THEN /\ last' = [NoLast EXCEPT !.op = "authMiddleware", !.pre = seen,
                                           !.response = early]
                 /\ UNCHANGED <<pc, op, arg, uid, loc, pre>>
            ELSE /\ pc' = [pc EXCEPT ![p] = "averify"]
                 /\ op' = [op EXCEPT ![p] = "authMiddleware"]
                 /\ arg' = [arg EXCEPT ![p] = tokenOf(h, slice(text(h), 7))]
                 /\ uid' = [uid EXCEPT ![p] = 0]
                 /\ loc' = [loc EXCEPT ![p] = NoLoc]
                 /\ pre' = [pre EXCEPT ![p] = seen]
                 /\ UNCHANGED last
    /\ UNCHANGED <<users, clock, store, known, signedUp, nextSid, issues, refreshedOk,
                   signedOut, justIssued>>
    /\ UNCHANGED invVars

-----------------------------------------------------------------------------
(* TokenService.invalidateRefreshToken *)

\* what invalidateRefreshToken returns once redis.del has answered `deleted`
invalidateRefreshToken_result(deleted) ==
    IF deleted = 0
    THEN InvalidTokenError("Refresh token not found or already invalidated")
    ELSE OkBool(TRUE)

\* variant: a token that does not decode is answered like one without an entry
invalidateRefreshToken_caught_asInvalid(error) ==
    InvalidTokenError("Refresh token not found or already invalidated")

\* the catch block of invalidateRefreshToken: an InvalidTokenError is returned as it is,
\* anything else thrown (by decode, by the Redis call) becomes a DatabaseError
invalidateRefreshToken_caught(error) ==
    IF error = "InvalidTokenError" THEN InvalidTokenError("Invalid token format")
    ELSE DatabaseError("Failed to invalidate refresh token")

\* !payload || typeof payload.sub !== "number" || typeof payload.jti !== "string"
invalidFormat(t) == t.sig = "noclaims"

\* decode(token), redis.del(redisKey) and the return; a throw of decode or of
\* the Redis call becomes a DatabaseError
invalidateRefreshToken_del(p, Throws) ==
    /\ Ready(p, "invalidate")
    /\ IF ~decodes(arg[p]) \/ invalidFormat(arg[p])
       THEN LET r == IF ~decodes(arg[p]) THEN invalidateRefreshToken_caught("JwtTokenInvalid")
                     ELSE InvalidTokenError("Invalid token format") IN
            /\ Step(p, "invalidateRefreshToken", r, [loc[p] EXCEPT !.invalidateResult = r])
            /\ UNCHANGED <<store>>
       ELSE \E throws \in Throws :
              LET k == getRefreshTokenKey(arg[p].sub, arg[p].jti)
                  r == IF throws
                       THEN invalidateRefreshToken_caught("Error")
                       ELSE invalidateRefreshToken_result(IF Has(k) THEN 1 ELSE 0)
              IN /\ store' = IF throws THEN store ELSE Without(k)
                 /\ Step(p, "invalidateRefreshToken", r,
                         [loc[p] EXCEPT !.threw = @ \/ throws, !.invalidateResult = r])
    /\ justIssued' = NoPair
    /\ UNCHANGED <<users, clock, nextSid>>

-----------------------------------------------------------------------------
(* TokenService.generateTokenPair *)

\* variant: a new session id for every pair
jtiOf_alwaysNew(sessionId, uuid) == uuid

\* sessionId ?? (await this.generateSessionId()): the session id given, or a new one
\* when none is (0)
jtiOf(sessionId, uuid) == IF sessionId # 0 THEN sessionId ELSE uuid

\* jti, now, the two payloads and their signatures
generateTokenPair_sign(p) ==
    /\ Ready(p, "generate")
    /\ LET fresh == op[p] # "refresh"
           userId == IF fresh THEN uid[p] ELSE loc[p].payload.sub
           jti == jtiOf(IF fresh THEN 0 ELSE loc[p].payload.jti, nextSid)
           now == clock
       IN /\ nextSid' = IF fresh THEN nextSid + 1 ELSE nextSid
          /\ Goto(p, "setex",
                  [loc[p] EXCEPT
                     !.payload = [NoTok EXCEPT !.sub = userId],
                     !.jti = jti,
                     !.accessToken = sign(userId, jti, now, now + ACCESS_TOKEN_EXPIRY_SECONDS),
                     !.refreshToken = sign(userId, jti, now, now + REFRESH_TOKEN_EXPIRY_SECONDS)])
    /\ justIssued' = NoPair
    /\ UNCHANGED <<users, clock, store, issues>>

\* variant: the hash of an empty string is stored in place of the token's
refreshEntry_emptyHash(refreshToken, now) ==
    [hash |-> hash(NoTok), expireAt |-> now + REFRESH_TOKEN_EXPIRY_SECONDS]

\* variant: the entry lives as long as an access token
refreshEntry_accessTtl(refreshToken, now) ==
    [hash |-> hash(refreshToken), expireAt |-> now + ACCESS_TOKEN_EXPIRY_SECONDS]

\* the entry generateTokenPair writes for a refresh token, at Redis time now
refreshEntry(refreshToken, now) ==
    [hash |-> hash(refreshToken), expireAt |-> now + REFRESH_TOKEN_EXPIRY_SECONDS]

\* redis.setEx(redisKey, REFRESH_TOKEN_EXPIRY_SECONDS, refreshTokenHash) and the return
generateTokenPair_setEx(p, Throws) ==
    /\ Ready(p, "setex")
    /\ \E throws \in Throws :
         LET k == getRefreshTokenKey(loc[p].payload.sub, loc[p].jti) IN
         /\ store' = IF throws THEN store
                     ELSE With(k, refreshEntry(loc[p].refreshToken, clock))
         /\ justIssued' = IF throws THEN NoPair
                          ELSE [userId |-> loc[p].payload.sub, jti |-> loc[p].jti,
                                accessToken |-> loc[p].accessToken,
                                refreshToken |-> loc[p].refreshToken]
         /\ Step(p, "generateTokenPair",
                 IF throws
                 THEN DatabaseError("Failed to generate token pair")
                 ELSE OkPair(loc[p].accessToken, loc[p].refreshToken),
                 [loc[p] EXCEPT !.threw = @ \/ throws])
    /\ UNCHANGED <<users, clock, nextSid>>

-----------------------------------------------------------------------------
(* Environment: time and Redis key expiry *)

\* the clock reaches a later instant of I; keys whose TTL ran out before it are gone
Tick(I) ==
    /\ last = NoLast
    /\ \E c \in I :
         /\ c > clock
         /\ clock' = c
         /\ store' = [k \in {x \in DOMAIN store : store[x].expireAt >= c} |-> store[k]]
    /\ justIssued' = NoPair
    /\ UNCHANGED <<users, known, signedUp, nextSid, issues, pc, op, arg, uid, loc, pre, last,
                   refreshedOk, signedOut>>
    /\ UNCHANGED invVars

\* Redis drops a key whose TTL has run out (within the clock second it ends in)
RedisExpire ==
    /\ last = NoLast
    /\ \E k \in DOMAIN store :
         /\ store[k].expireAt <= clock
         /\ store' = Without(k)
    /\ justIssued' = NoPair
    /\ UNCHANGED <<users, clock, known, signedUp, nextSid, issues, pc, op, arg, uid, loc, pre, last,
                   refreshedOk, signedOut>>
    /\ UNCHANGED invVars

\* the response of the request that has just returned reaches its client
Respond ==
    /\ last # NoLast
    /\ last' = NoLast
    /\ UNCHANGED <<users, clock, store, known, signedUp, nextSid, issues, pc, op, arg, uid,
                   loc, pre, refreshedOk, signedOut, justIssued>>
    /\ UNCHANGED invVars

-----------------------------------------------------------------------------
(* AuthService.signUp and signIn over the users table *)

Emails == {"a@x", "b@x"}
Passwords == {"pw1", "pw2"}

\* SignUpDTO / SignInDTO; the name is stored and not read again, and left out
DTOs == [email : Emails, password : Passwords]

\* a selection that finds no row
activeByEmail_none(table, email) == {}

\* where("email", "=", email).where("deleted_at", "is", null): ids of the rows selected
activeByEmail(table, email) ==
    {i \in DOMAIN table : table[i].email = email /\ ~table[i].deleted}

\* executeTakeFirst() of that selection: 0 when there is no row
takeFirst(ids) == IF ids = {} THEN 0 ELSE CHOOSE i \in ids : \A j \in ids : i <= j

\* the row UserRepository.create inserts
userRow(email, hashedPassword) ==
    [email |-> email, password |-> hashedPassword, deleted |-> FALSE]

\* what the request remembers of the state it began in
UserPre == [rotated |-> FALSE, revoked |-> FALSE, store |-> store, users |-> users,
            signedUp |-> signedUp]

\* a sign-up or sign-in request arrives
BeginUser(p, o, dto, at) ==
    /\ Ready(p, "idle")
    /\ pc' = [pc EXCEPT ![p] = at]
    /\ op' = [op EXCEPT ![p] = o]
    /\ arg' = [arg EXCEPT ![p] = dto]
    /\ uid' = [uid EXCEPT ![p] = 0]
    /\ loc' = [loc EXCEPT ![p] = NoLoc]
    /\ pre' = [pre EXCEPT ![p] = UserPre]
    /\ justIssued' = NoPair
    /\ UNCHANGED <<users, clock, store, known, signedUp, nextSid, last, refreshedOk, signedOut>>
    /\ UNCHANGED invVars

StartSignUp(p, D, max) ==
    /\ issues < max
    /\ \E dto \in D : BeginUser(p, "signUp", dto, "emailExists")
    /\ issues' = issues + 1

StartSignIn(p, D, max) ==
    /\ issues < max
    /\ \E dto \in D : BeginUser(p, "signIn", dto, "findByEmail")
    /\ issues' = issues + 1

\* request p leaves the call of userRepository method `stage` with Result r;
\* threw tells whether the database call threw
UserStep(p, stage, r, threw) ==
    LET n == Continue(op[p], arg[p], stage, r)
        held == [loc[p] EXCEPT !.collab = r, !.threw = @ \/ threw]
    IN IF n.pc = "done"
       THEN Finish(p, n.res, held)
       ELSE /\ pc' = [pc EXCEPT ![p] = n.pc]
            /\ loc' = [loc EXCEPT ![p] = held]
            /\ uid' = [uid EXCEPT ![p] = r.user]
            /\ UNCHANGED <<op, arg, pre, last, refreshedOk, signedOut, known, signedUp>>
            /\ UNCHANGED invVars

\* signUp: userRepository.emailExists(data.email) and the two returns after it
signUp_emailExists(p, Throws) ==
    /\ Ready(p, "emailExists")
    /\ \E throws \in Throws :
         UserStep(p, "emailExists",
                  IF throws
                  THEN DatabaseError("Failed to check email existence: " \o arg[p].email)
                  ELSE OkBool(activeByEmail(users, arg[p].email) # {}),
                  throws)
    /\ UNCHANGED <<users, clock, store, nextSid, issues, justIssued>>

\* signUp: hash(data.password), and the insert of UserRepository.create
create_insert(p, Throws) ==
    /\ Ready(p, "insert")
    /\ \E throws \in Throws :
         IF throws
         THEN /\ UserStep(p, "create", DatabaseError("Failed to create user"), TRUE)
              /\ UNCHANGED users
         ELSE /\ users' = Append(users, userRow(arg[p].email, hash(arg[p].password)))
              /\ pc' = [pc EXCEPT ![p] = "findById"]
              /\ uid' = [uid EXCEPT ![p] = Len(users) + 1]
              /\ UNCHANGED <<op, arg, loc, pre, last, refreshedOk, signedOut, known, signedUp>>
              /\ UNCHANGED invVars
    /\ UNCHANGED <<clock, store, nextSid, issues, justIssued>>

\* UserRepository.create: findById(insertedId) and the returns after it, and
\* signUp's handling of createResult
create_findById(p, Throws) ==
    /\ Ready(p, "findById")
    /\ \E throws \in Throws :
         UserStep(p, "create",
                  IF throws
                  THEN DatabaseError("Failed to find user by id: " \o ToString(uid[p]))
                  ELSE IF users[uid[p]].deleted
                  THEN DatabaseError("Failed to retrieve created user")
                  ELSE OkUser(uid[p]),
                  throws)
    /\ UNCHANGED <<users, clock, store, nextSid, issues, justIssued>>

\* signIn: userRepository.findByEmail(data.email) and the two returns after it
signIn_findByEmail(p, Throws) ==
    /\ Ready(p, "findByEmail")
    /\ \E throws \in Throws :
         UserStep(p, "findByEmail",
                  IF throws
                  THEN DatabaseError("Failed to find user by email: " \o arg[p].email)
                  ELSE OkUser(takeFirst(activeByEmail(users, arg[p].email))),
                  throws)
    /\ UNCHANGED <<users, clock, store, nextSid, issues, justIssued>>

\* signIn: argonVerify(user.password, data.password) and the return after it
signIn_argonVerify(p) ==
    /\ Ready(p, "password")
    /\ IF ~argonVerify(users[uid[p]].password, arg[p].password)
       THEN Finish(p, InvalidCredentialsError, loc[p])
       ELSE Goto(p, "generate", loc[p])
    /\ UNCHANGED <<users, clock, store, nextSid, issues, justIssued>>

-----------------------------------------------------------------------------
(* Inventory propagation: the spaces and inventories tables, SpaceLookupService *)
(* and InventoryService                                                        *)

Workers == {"w1", "w2"}
Spaces == {1, 2, 3}

\* stands for MySQL's cte_max_recursion_depth (1000 unless the server sets
\* another value): deeper than any forest over Spaces
CteMaxRecursionDepth == 3
NULL == "NULL"

\* an ItemForPropagation; spaceId 0 stands for null (both are falsy). The fields
\* name, code, sku, status and notes are copied through unchanged and left out.
NoItem == [id |-> 0, spaceId |-> 0, spaceType |-> NULL, cost |-> NULL]

\* Results of the inventory slice
NoIRes == [tag |-> "None", code |-> "", message |-> "", updatedCount |-> 0,
           childIds |-> EmptyBag, records |-> EmptyBag]
PropagationOk(n) == [NoIRes EXCEPT !.tag = "Ok", !.updatedCount = n]
ChildrenOk(ids) == [NoIRes EXCEPT !.tag = "Ok", !.childIds = ids]
StoreErr(message) ==
    [NoIRes EXCEPT !.tag = "Err", !.code = "DATABASE_ERROR", !.message = message]

\* Result.ok(new Set(spaceIds)) of findExistingSpaceIds
ExistingOk(spaceIds) == [NoIRes EXCEPT !.tag = "Ok", !.childIds = SetToBag(spaceIds)]

\* Result.ok(inventories) of findByItemId
RecordsOk(records) == [NoIRes EXCEPT !.tag = "Ok", !.records = records]

NoCalls == [spaces |-> 0, inventories |-> 0, inserts |-> 0]

\* an UpdateItemDTO / UpdateUserDTO: NULL stands for a field that is not given
NoData == [name |-> NULL, status |-> NULL, email |-> NULL]
NoRun == [pc |-> "idle", op |-> "none", item |-> NoItem, spaceId |-> 0, frontier |-> {},
          rows |-> EmptyBag, iterations |-> 0, childrenIds |-> EmptyBag,
          newInventories |-> EmptyBag, before |-> EmptyBag, calls |-> NoCalls,
          threw |-> FALSE, collab |-> NoIRes, route |-> FALSE, data |-> NoData,
          gone |-> FALSE]
NoPrev == [item |-> NoItem, tag |-> "None", updatedCount |-> 0, after |-> EmptyBag]
NoILast == [op |-> "none", item |-> NoItem, spaceId |-> 0, res |-> NoIRes, before |-> EmptyBag,
            calls |-> NoCalls, threw |-> FALSE, prev |-> NoPrev, collab |-> NoIRes,
            route |-> FALSE, response |-> NoResponse, data |-> NoData, gone |-> FALSE]

\* variant: the guard on item.spaceId is missing
unassigned_never(item) == FALSE

\* if (!item.spaceId)
unassigned(item) == item.spaceId = 0

\* the non-recursive part of space_tree: select id from spaces where id = spaceId
anchor(spaceId) == {spaceId} \cap Spaces

\* one pass of the recursive part over the rows of the previous pass:
\* select spaces.id from spaces inner join space_tree on space_tree.id = spaces.parent_id
children(frontier) == {s \in Spaces : parent[s] \in frontier}

\* variant: the recursion is not limited
cteAborts_never(iterations) == FALSE

\* MySQL gives up on a recursive query whose recursion goes past
\* cte_max_recursion_depth passes; mysql2 rejects and the catch block answers
cteAborts(iterations) == iterations >= CteMaxRecursionDepth

\* variant: the final filter on id is missing
childIds_withRoot(rows, spaceId) == rows

\* select id from space_tree where id != spaceId (space_tree is a UNION ALL: a bag)
childIds(rows, spaceId) ==
    [s \in BagToSet(rows) \ {spaceId} |-> rows[s]]

\* variant: the existence query matches no row
findExistingSpaceIds_none(table, itemId, spaceIds) == {}

\* the rows findExistingSpaceIds selects, as the Set it returns
findExistingSpaceIds(table, itemId, spaceIds) ==
    IF spaceIds = {} THEN {}
    ELSE {r.spaceId : r \in {x \in BagToSet(table) : x.itemId = itemId /\ x.spaceId \in spaceIds}}

\* one CreateInventoryBatchData of the loop over childrenIds
CreateInventoryBatchData(item, spaceId) ==
    [itemId |-> item.id, itemType |-> "ITM", spaceId |-> spaceId,
     spaceType |-> IF item.spaceType = NULL THEN "SPACE" ELSE item.spaceType,
     costPerUnit |-> item.cost, modelType |-> "SUP", parentType |-> "IVT"]

\* the loop: one entry for every element of childrenIds that is not in the Set
newInventories(item, childrenIds, existingSpaceIds) ==
    LET todo == BagToSet(childrenIds) \ existingSpaceIds IN
    [d \in {CreateInventoryBatchData(item, s) : s \in todo} |-> childrenIds[d.spaceId]]

\* the row createBatch inserts for one entry
insertRow(inv) ==
    [itemId |-> inv.itemId, itemType |-> inv.itemType, spaceId |-> inv.spaceId,
     spaceType |-> inv.spaceType, balance |-> "0",
     costPerUnit |-> IF inv.costPerUnit = NULL THEN "0" ELSE inv.costPerUnit,
     modelType |-> inv.modelType, parentType |-> inv.parentType]

\* inventories.map(...): the rows of one insert statement
insertRows(batch) ==
    [r \in {insertRow(d) : d \in BagToSet(batch)} |->
        batch[CHOOSE d \in BagToSet(batch) : insertRow(d) = r]]

\* variant: the statement replaces the table's rows by the new ones
insertInto_replace(table, rows) == rows

\* db.insertInto("inventories").values(rows).execute(): the rows are added to the table
insertInto(table, rows) == table (+) rows

\* worker p is at position `at` and the event loop is free to run it
IReady(p, at) == ilast = NoILast /\ run[p].pc = at

\* what POST /items/:id/inventory answers for the Result r it ends with; the
\* data of a success body is r's updatedCount and is not repeated here
itemRoute(r) ==
    IF r.tag = "Err" THEN [status |-> errorToStatus(r), body |-> errorToResponse(r)]
    ELSE [status |-> 200, body |-> [code |-> "", message |-> ""]]

\* the call of worker p, whose state is rn, returns r and leaves the table as
\* `table`; a call made by the route is answered by the route
IFinish(p, rn, r, table) ==
    /\ ilast' = [op |-> rn.op, item |-> rn.item, spaceId |-> rn.spaceId, res |-> r,
                 before |-> rn.before, calls |-> rn.calls, threw |-> rn.threw, prev |-> prev,
                 collab |-> rn.collab, route |-> rn.route,
                 response |-> IF rn.route THEN itemRoute(r) ELSE NoResponse,
                 data |-> rn.data, gone |-> rn.gone]
    /\ prev' = IF rn.op = "propagateToChildSpaces"
               THEN [item |-> rn.item, tag |-> r.tag, updatedCount |-> r.updatedCount,
                     after |-> table]
               ELSE prev
    /\ run' = [run EXCEPT ![p] = NoRun]

\* the call of worker p goes on from state rn
IGoto(p, rn) ==
    /\ run' = [run EXCEPT ![p] = rn]
    /\ UNCHANGED <<ilast, prev>>

\* propagateToChildSpaces(item) up to its first await: the guard on item.spaceId
\* and the sending of the space_tree query
propagateToChildSpaces_call(p, caller, item) ==
    LET rn == [caller EXCEPT !.op = "propagateToChildSpaces", !.item = item] IN
    IF unassigned(item)
    THEN IFinish(p, rn, PropagationOk(0), inventories)
    ELSE IGoto(p, [rn EXCEPT !.pc = "cte", !.spaceId = item.spaceId,
                             !.frontier = anchor(item.spaceId),
                             !.rows = SetToBag(anchor(item.spaceId)),
                             !.calls.spaces = 1])

\* a caller inside the server calls propagateToChildSpaces(item)
propagateToChildSpaces_start(p, I) ==
    /\ IReady(p, "idle")
    /\ \E item \in I :
         propagateToChildSpaces_call(p, [NoRun EXCEPT !.before = inventories], item)
    /\ UNCHANGED <<parent, inventories, items, lib, legacy>>
    /\ UNCHANGED authVars

\* a caller asks SpaceLookupService.findChildrenIds(spaceId) itself
findChildrenIds_start(p, S) ==
    /\ IReady(p, "idle")
    /\ \E spaceId \in S :
         IGoto(p, [NoRun EXCEPT !.pc = "cte", !.op = "findChildrenIds", !.spaceId = spaceId,
                                !.frontier = anchor(spaceId),
                                !.rows = SetToBag(anchor(spaceId)),
                                !.before = inventories, !.calls.spaces = 1])
    /\ UNCHANGED <<parent, inventories, items, lib, legacy>>
    /\ UNCHANGED authVars

\* what propagateToChildSpaces does with childrenResult
propagateToChildSpaces_children(p, rn, r) ==
    LET held == [rn EXCEPT !.collab = r] IN
    IF rn.op = "findChildrenIds" \/ r.tag = "Err"
    THEN IFinish(p, held, r, inventories)
    ELSE IF BagCardinality(r.childIds) = 0
    THEN IFinish(p, held, PropagationOk(0), inventories)
    ELSE IGoto(p, [held EXCEPT !.pc = "existing", !.childrenIds = r.childIds])

\* the database runs the space_tree query one pass further: more rows, or the
\* end of the query, or its abort; then findChildrenIds returns and
\* propagateToChildSpaces goes on to its next await
findChildrenIds_recurse(p, Throws) ==
    /\ IReady(p, "cte")
    /\ \E throws \in Throws :
         LET rn == [run[p] EXCEPT !.threw = throws]
             new == children(rn.frontier)
         IN IF throws \/ (new # {} /\ cteAborts(rn.iterations))
            THEN propagateToChildSpaces_children(p, rn,
                     StoreErr("Failed to find children for space"))
            ELSE IF new = {}
            THEN propagateToChildSpaces_children(p, rn,
                     ChildrenOk(childIds(rn.rows, rn.spaceId)))
            ELSE IGoto(p, [rn EXCEPT !.frontier = new, !.rows = @ (+) SetToBag(new),
                                     !.iterations = @ + 1])
    /\ UNCHANGED <<parent, inventories, items, lib, legacy>>
    /\ UNCHANGED authVars

\* findExistingSpaceIds(item.id, childrenIds), the loop building newInventories
\* and the empty-batch return
findExistingSpaceIds_query(p, Throws) ==
    /\ IReady(p, "existing")
    /\ \E throws \in Throws :
         LET existingResult ==
                 IF throws
                 THEN StoreErr("Failed to find existing inventory space IDs for item")
                 ELSE ExistingOk(findExistingSpaceIds(inventories, run[p].item.id,
                                                      BagToSet(run[p].childrenIds)))
             rn == [run[p] EXCEPT !.calls.inventories = @ + 1, !.threw = throws,
                                  !.collab = existingResult]
             existingSpaceIds == BagToSet(existingResult.childIds)
             batch == newInventories(rn.item, rn.childrenIds, existingSpaceIds)
         IN IF existingResult.tag = "Err"
            THEN IFinish(p, rn, existingResult, inventories)
            ELSE IF BagCardinality(batch) = 0
            THEN IFinish(p, rn, PropagationOk(0), inventories)
            ELSE IGoto(p, [rn EXCEPT !.pc = "insert", !.newInventories = batch])
    /\ UNCHANGED <<parent, inventories, items, lib, legacy>>
    /\ UNCHANGED authVars

\* createBatch(newInventories): one insert statement, and the return of updatedCount
createBatch_insert(p, Throws) ==
    /\ IReady(p, "insert")
    /\ \E throws \in Throws :
         LET createResult ==
                 IF throws THEN StoreErr("Failed to create inventory records in batch")
                 ELSE PropagationOk(BagCardinality(run[p].newInventories))
             rn == [run[p] EXCEPT !.calls.inserts = @ + 1, !.threw = throws,
                                  !.collab = createResult]
             table == IF throws THEN inventories
                      ELSE insertInto(inventories, insertRows(rn.newInventories))
         IN /\ inventories' = table
            /\ IFinish(p, rn,
                   IF createResult.tag = "Err" THEN createResult
                   ELSE PropagationOk(createResult.updatedCount),
                   table)
    /\ UNCHANGED <<parent, items, lib, legacy>>
    /\ UNCHANGED authVars

\* NotFoundError(resource, id)
NotFoundError(resource, id) ==
    [NoIRes EXCEPT !.tag = "Err", !.code = "NOT_FOUND",
                   !.message = resource \o " with id '" \o ToString(id) \o "' not found"]

\* variant: the filter on deleted_at is missing
itemById_withDeleted(table, id) == {row \in table : row.id = id}

\* ItemRepository.findById: where id = id and deleted_at is null; the rows selected
itemById(table, id) == {row \in table : row.id = id /\ ~row.deleted}

\* the ItemForPropagation the route makes of an item
ItemForPropagation(item) ==
    [id |-> item.id, spaceId |-> item.spaceId, spaceType |-> item.spaceType,
     cost |-> item.cost]

\* POST /items/:id/inventory up to its first await: the id is taken from the
\* path and itemRepository.findById(id) is called
postItemInventory_start(p, Ids) ==
    /\ IReady(p, "idle")
    /\ \E id \in Ids :
         IGoto(p, [NoRun EXCEPT !.pc = "findItem", !.op = "postItemInventory",
                                !.route = TRUE, !.item = [NoItem EXCEPT !.id = id],
                                !.before = inventories])
    /\ UNCHANGED <<parent, inventories, items, lib, legacy>>
    /\ UNCHANGED authVars

\* itemRepository.findById answers: the route answers an Err or a missing item
\* itself, and calls propagateToChildSpaces for an item it has found
postItemInventory_findById(p, Throws) ==
    /\ IReady(p, "findItem")
    /\ \E throws \in Throws :
         LET id == run[p].item.id
             rn == [run[p] EXCEPT !.threw = throws]
             rows == itemById(items, id)
         IN IF throws
            THEN IFinish(p, rn, StoreErr("Failed to find item by id: " \o ToString(id)),
                         inventories)
            ELSE IF rows = {}
            THEN IFinish(p, rn, NotFoundError("Item", id), inventories)
            ELSE propagateToChildSpaces_call(p, rn,
                     ItemForPropagation(CHOOSE row \in rows : TRUE))
    /\ UNCHANGED <<parent, inventories, items, lib, legacy>>
    /\ UNCHANGED authVars

\* InventoryService.findByItemId(itemId) up to its await
findByItemId_start(p, Ids) ==
    /\ IReady(p, "idle")
    /\ \E itemId \in Ids :
         IGoto(p, [NoRun EXCEPT !.pc = "byItem", !.op = "findByItemId",
                                !.item = [NoItem EXCEPT !.id = itemId],
                                !.before = inventories])
    /\ UNCHANGED <<parent, inventories, items, lib, legacy>>
    /\ UNCHANGED authVars

\* select * from inventories where item_id = itemId: the rows selected
byItemId(table, itemId) ==
    LET rows == {r \in BagToSet(table) : r.itemId = itemId} IN [r \in rows |-> table[r]]

\* the InventoryRecord made of one Inventory
InventoryRecord(inv) ==
    [itemId |-> inv.itemId, spaceId |-> inv.spaceId, balance |-> inv.balance,
     costPerUnit |-> inv.costPerUnit]

\* result.value.map(...): the records of the rows
recordsOf(rows) ==
    LET recs == {InventoryRecord(r) : r \in BagToSet(rows)} IN
    [c \in recs |-> BagCardinality([r \in {x \in BagToSet(rows) : InventoryRecord(x) = c}
                                       |-> rows[r]])]

\* inventoryRepository.findByItemId(itemId) answers, and findByItemId returns
findByItemId_query(p, Throws) ==
    /\ IReady(p, "byItem")
    /\ \E throws \in Throws :
         LET result ==
                 IF throws
                 THEN StoreErr("Failed to find inventories for item: "
                               \o ToString(run[p].item.id))
                 ELSE RecordsOk(byItemId(inventories, run[p].item.id))
             rn == [run[p] EXCEPT !.calls.inventories = @ + 1, !.threw = throws,
                                  !.collab = result]
         IN IFinish(p, rn,
                    IF result.tag = "Err" THEN result ELSE RecordsOk(recordsOf(result.records)),
                    inventories)
    /\ UNCHANGED <<parent, inventories, items, lib, legacy>>
    /\ UNCHANGED authVars

\* the Result of the call that has just returned reaches its caller
IRespond ==
    /\ ilast # NoILast
    /\ ilast' = NoILast
    /\ UNCHANGED <<parent, inventories, items, run, prev, lib, legacy>>
    /\ UNCHANGED authVars

-----------------------------------------------------------------------------
(* modules/auth AuthService: cookie sessions *)

\* 1000 * 60 * 60 * 24 * 30 and 1000 * 60 * 60 * 24 * 15 milliseconds, in the
\* whole seconds of clock
SESSION_LIFETIME == 60 * 60 * 24 * 30
SESSION_RENEWAL == 60 * 60 * 24 * 15

\* the session tokens generateSessionToken hands out
MaxSessionTokens == 2
SessionTokens == {"token" \o ToString(i) : i \in 1..MaxSessionTokens}

\* encodeHexLowerCase(sha256(new TextEncoder().encode(token))): one id per token
sessionIdOf(token) == "sha256:" \o token

NoRow == [id |-> "", userId |-> 0, expiresAt |-> 0]
NoLegacy == [sessions |-> [x \in {} |-> NoRow], created |-> {}, invalidated |-> {},
             pc |-> "idle", op |-> "none", token |-> "", found |-> NoRow, session |-> NoRow,
             at |-> 0, returned |-> "none"]

\* the call returns `what`: "session" (with l.session), "null", "void" or "throws"
LegacyReturn(l, what) == [l EXCEPT !.pc = "done", !.returned = what]

legacyFrame == <<store, known, signedUp, nextSid, issues, pc, op, arg, uid, loc, pre, last,
                 refreshedOk, signedOut, justIssued, users, parent, inventories, items, run,
                 ilast, prev, lib>>

\* createSession(token, userId) with a token from generateSessionToken
createSession(U) ==
    /\ legacy.pc = "idle"
    /\ \E token \in SessionTokens \ legacy.created, userId \in U :
         LET session == [id |-> sessionIdOf(token), userId |-> userId,
                         expiresAt |-> clock + SESSION_LIFETIME]
         IN  legacy' = LegacyReturn(
                 [legacy EXCEPT !.op = "createSession", !.token = token, !.session = session,
                                !.created = @ \cup {token},
                                !.sessions = [x \in DOMAIN @ \cup {session.id} |->
                                                IF x = session.id THEN session ELSE @[x]]],
                 "session")
    /\ UNCHANGED <<clock, legacyFrame>>

\* validateSessionToken(token): prisma.session.findUnique and the return for null
validateSessionToken_findUnique(T) ==
    /\ legacy.pc = "idle"
    /\ \E token \in T :
         LET sessionId == sessionIdOf(token)
             l == [legacy EXCEPT !.op = "validateSessionToken", !.token = token]
         IN  legacy' = IF sessionId \in DOMAIN legacy.sessions
                       THEN [l EXCEPT !.pc = "found", !.found = legacy.sessions[sessionId],
                                      !.session = legacy.sessions[sessionId]]
                       ELSE LegacyReturn(l, "null")
    /\ UNCHANGED <<clock, legacyFrame>>

\* variant: a session is expired only after the instant of its expiresAt
expired_after(now, expiresAt) == now > expiresAt

\* Date.now() >= session.expiresAt.getTime()
expired(now, expiresAt) == now >= expiresAt

\* the two comparisons with Date.now(), the new expiresAt, the return of a
\* session that needs no extension
validateSessionToken_check ==
    /\ legacy.pc = "found"
    /\ LET l == [legacy EXCEPT !.at = clock] IN
       legacy' =
         IF expired(clock, legacy.session.expiresAt) THEN [l EXCEPT !.pc = "delete"]
         ELSE IF clock >= legacy.session.expiresAt - SESSION_RENEWAL
         THEN [l EXCEPT !.pc = "update", !.session.expiresAt = clock + SESSION_LIFETIME]
         ELSE LegacyReturn(l, "session")
    /\ UNCHANGED <<clock, legacyFrame>>

\* the rows of a table without those of the ids in D
withoutIds(table, D) == [x \in DOMAIN table \ D |-> table[x]]

\* prisma.session.delete of the expired session: throws when the row is not there
validateSessionToken_delete ==
    /\ legacy.pc = "delete"
    /\ LET id == sessionIdOf(legacy.token) IN
       legacy' = IF id \in DOMAIN legacy.sessions
                 THEN LegacyReturn([legacy EXCEPT !.sessions = withoutIds(@, {id})], "null")
                 ELSE LegacyReturn(legacy, "throws")
    /\ UNCHANGED <<clock, legacyFrame>>

\* prisma.session.update of expiresAt, and the return of the session
validateSessionToken_update ==
    /\ legacy.pc = "update"
    /\ LET id == legacy.session.id IN
       legacy' = IF id \in DOMAIN legacy.sessions
                 THEN LegacyReturn(
                        [legacy EXCEPT !.sessions[id].expiresAt = legacy.session.expiresAt],
                        "session")
                 ELSE LegacyReturn(legacy, "throws")
    /\ UNCHANGED <<clock, legacyFrame>>

\* invalidateSession(sessionId): prisma.session.delete, which throws when no row has the id
invalidateSession(T) ==
    /\ legacy.pc = "idle"
    /\ \E token \in T :
         LET id == sessionIdOf(token)
             l == [legacy EXCEPT !.op = "invalidateSession", !.token = token]
         IN  legacy' = IF id \in DOMAIN legacy.sessions
                       THEN LegacyReturn([l EXCEPT !.sessions = withoutIds(@, {id}),
                                                   !.invalidated = @ \cup {id}], "void")
                       ELSE LegacyReturn(l, "throws")
    /\ UNCHANGED <<clock, legacyFrame>>

\* invalidateAllSessions(userId): prisma.session.deleteMany where userId = userId
invalidateAllSessions(U) ==
    /\ legacy.pc = "idle"
    /\ \E userId \in U :
         LET ids == {x \in DOMAIN legacy.sessions : legacy.sessions[x].userId = userId}
             l == [legacy EXCEPT !.op = "invalidateAllSessions", !.session.userId = userId]
         IN  legacy' = LegacyReturn([l EXCEPT !.sessions = withoutIds(@, ids),
                                              !.invalidated = @ \cup ids], "void")
    /\ UNCHANGED <<clock, legacyFrame>>

\* the caller has what the call returned
LegacyRespond ==
    /\ legacy.pc = "done"
    /\ legacy' = [NoLegacy EXCEPT !.sessions = legacy.sessions, !.created = legacy.created,
                                  !.invalidated = legacy.invalidated]
    /\ UNCHANGED <<clock, legacyFrame>>

\* time passes: to any later instant of I between calls, by a second during one
LegacyTick(I) ==
    /\ \E c \in I :
         /\ c > clock
         /\ legacy.pc # "idle" => c = clock + 1
         /\ clock' = c
    /\ UNCHANGED <<legacy, legacyFrame>>

-----------------------------------------------------------------------------
(* ItemRepository and UserRepository: reads, update and soft delete *)

\* Result.ok(entity), Result.ok(entities): the rows returned
RowsOk(rows) == [NoIRes EXCEPT !.tag = "Ok", !.records = SetToBag(rows)]

\* Result.ok(true), Result.ok(false)
FlagOk(flag) == [NoIRes EXCEPT !.tag = "Ok", !.updatedCount = IF flag THEN 1 ELSE 0]

\* a call of one statement by worker p returns r
Answer(p, o, id, r) ==
    /\ IReady(p, "idle")
    /\ IFinish(p, [NoRun EXCEPT !.op = o, !.item = [NoItem EXCEPT !.id = id],
                                !.before = inventories], r, inventories)

\* a call of several statements by worker p begins
Call(p, o, id, data, at, gone) ==
    /\ IReady(p, "idle")
    /\ IGoto(p, [NoRun EXCEPT !.pc = at, !.op = o, !.item = [NoItem EXCEPT !.id = id],
                              !.data = data, !.gone = gone, !.before = inventories])

\* ItemRepository.findById(id)
ItemRepository_findById(p, Ids) ==
    /\ \E id \in Ids : Answer(p, "ItemRepository.findById", id, RowsOk(itemById(items, id)))
    /\ UNCHANGED <<parent, inventories, items, lib, legacy>>
    /\ UNCHANGED authVars

\* ItemRepository.findAll(): where deleted_at is null and status = 'active'
ItemRepository_findAll(p) ==
    /\ Answer(p, "ItemRepository.findAll", 0,
              RowsOk({row \in items : ~row.deleted /\ row.status = "active"}))
    /\ UNCHANGED <<parent, inventories, items, lib, legacy>>
    /\ UNCHANGED authVars

\* variant: the query leaves out the rows whose deleted_at is set
queried_live(table, spaceIds, status) ==
    {row \in table : row.spaceId \in spaceIds /\ row.status = status /\ ~row.deleted}

\* the rows of findAllWithQuery's base query: where space_id in spaceIds and status = status
queried(table, spaceIds, status) ==
    {row \in table : row.spaceId \in spaceIds /\ row.status = status}

\* what findAllWithQuery makes of a row selected for type "commerce"
commerceRow(row) ==
    [row EXCEPT !.cost = "0", !.status = "active", !.spaceId = 0, !.spaceType = NULL,
                !.deleted = FALSE]

\* ItemRepository.findAllWithQuery(query): the space and its parent, the status asked for
\* ("active" when none is), one page of at most `limit` rows; the search filter is left out
ItemRepository_findAllWithQuery(p, Statuses) ==
    /\ \E spaceId \in Spaces, status \in Statuses, type \in {"dashboard", "commerce"},
          page \in {1, 2} :
         LET limit == 10
             spaceIds == {spaceId} \cup (IF parent[spaceId] # 0 THEN {parent[spaceId]} ELSE {})
             selected == queried(items, spaceIds, status)
             rows == IF (page - 1) * limit >= Cardinality(selected) THEN {} ELSE selected
         IN  Answer(p, "ItemRepository.findAllWithQuery", 0,
                    RowsOk(IF type = "commerce" THEN {commerceRow(row) : row \in rows}
                           ELSE rows))
    /\ UNCHANGED <<parent, inventories, items, lib, legacy>>
    /\ UNCHANGED authVars

\* ItemRepository.findByIdIncludingDeleted(id)
ItemRepository_findByIdIncludingDeleted(p, Ids) ==
    /\ \E id \in Ids :
         Answer(p, "ItemRepository.findByIdIncludingDeleted", id,
                RowsOk({row \in items : row.id = id}))
    /\ UNCHANGED <<parent, inventories, items, lib, legacy>>
    /\ UNCHANGED authVars

\* ItemRepository.update(id, data) and delete(id) up to their first await
ItemRepository_start(p, Ids, Data) ==
    /\ \E id \in Ids :
         LET gone == \E row \in items : row.id = id /\ row.deleted IN
         \/ \E data \in Data : Call(p, "ItemRepository.update", id, data, "existing", gone)
         \/ Call(p, "ItemRepository.delete", id, NoData, "existing", gone)
    /\ UNCHANGED <<parent, inventories, items, lib, legacy>>
    /\ UNCHANGED authVars

\* update and delete: "First check if item exists and is not deleted"
ItemRepository_existing(p) ==
    /\ IReady(p, "existing")
    /\ IF itemById(items, run[p].item.id) = {}
       THEN IFinish(p, run[p], NotFoundError("Item", run[p].item.id), inventories)
       ELSE IGoto(p, [run[p] EXCEPT !.pc = "write"])
    /\ UNCHANGED <<parent, inventories, items, lib, legacy>>
    /\ UNCHANGED authVars

\* variant: the write of update and delete skips rows whose deleted_at is set
written_live(row, o, data) ==
    IF row.deleted THEN row
    ELSE IF o = "ItemRepository.delete" THEN [row EXCEPT !.deleted = TRUE, !.status = "archived"]
    ELSE [row EXCEPT !.name = IF data.name # NULL THEN data.name ELSE @,
                     !.status = IF data.status # NULL THEN data.status ELSE @]

\* the row after updateTable("items").set(...).where("id", "=", id): delete sets deleted_at
\* and status "archived", update sets the fields that are given
written(row, o, data) ==
    IF o = "ItemRepository.delete" THEN [row EXCEPT !.deleted = TRUE, !.status = "archived"]
    ELSE [row EXCEPT !.name = IF data.name # NULL THEN data.name ELSE @,
                     !.status = IF data.status # NULL THEN data.status ELSE @]

\* the write of update and of delete; delete returns after it
ItemRepository_write(p) ==
    /\ IReady(p, "write")
    /\ LET id == run[p].item.id
           table == {IF row.id = id THEN written(row, run[p].op, run[p].data) ELSE row :
                       row \in items}
       IN  /\ items' = table
           /\ IF run[p].op = "ItemRepository.delete"
              THEN IFinish(p, run[p], FlagOk(TRUE), inventories)
              ELSE IGoto(p, [run[p] EXCEPT !.pc = "updated"])
    /\ UNCHANGED <<parent, inventories, lib, legacy>>
    /\ UNCHANGED authVars

\* update: "Fetch and return the updated item", where id = id
ItemRepository_updated(p) ==
    /\ IReady(p, "updated")
    /\ LET rows == {row \in items : row.id = run[p].item.id} IN
       IFinish(p, run[p],
               IF rows = {} THEN NotFoundError("Item", run[p].item.id) ELSE RowsOk(rows),
               inventories)
    /\ UNCHANGED <<parent, inventories, items, lib, legacy>>
    /\ UNCHANGED authVars

\* a users row as an entity: its id is its place in the table
userEntity(table, i) == [id |-> i, email |-> table[i].email, deleted |-> table[i].deleted]

\* where deleted_at is null, and the conditions of the read: the users selected
activeUsers(table, I) == {userEntity(table, i) : i \in {j \in I : ~table[j].deleted}}

\* UserRepository.findById, findAll, findByEmail and emailExists
UserRepository_read(p, Ids) ==
    /\ \/ \E id \in Ids :
            Answer(p, "UserRepository.findById", id,
                   RowsOk(activeUsers(users, {id} \cap DOMAIN users)))
       \/ Answer(p, "UserRepository.findAll", 0, RowsOk(activeUsers(users, DOMAIN users)))
       \/ \E email \in Emails :
            LET first == takeFirst(activeByEmail(users, email)) IN
            \/ Answer(p, "UserRepository.findByEmail", first,
                      RowsOk(IF first = 0 THEN {} ELSE {userEntity(users, first)}))
            \/ Answer(p, "UserRepository.emailExists", first, FlagOk(first # 0))
    /\ UNCHANGED <<parent, inventories, items, lib, legacy>>
    /\ UNCHANGED authVars

usersFrame == <<clock, store, known, signedUp, nextSid, issues, pc, op, arg, uid, loc, pre,
                last, refreshedOk, signedOut, justIssued>>

\* UserRepository.delete(id): one update where id = id and deleted_at is null
UserRepository_delete(p, Ids) ==
    /\ \E id \in Ids :
         LET live == id \in DOMAIN users /\ ~users[id].deleted
             rn == [NoRun EXCEPT !.op = "UserRepository.delete", !.gone = ~live,
                                 !.item = [NoItem EXCEPT !.id = id], !.before = inventories]
         IN  /\ IReady(p, "idle")
             /\ users' = IF live THEN [users EXCEPT ![id].deleted = TRUE] ELSE users
             /\ IFinish(p, rn, IF live THEN FlagOk(TRUE) ELSE NotFoundError("User", id),
                        inventories)
    /\ UNCHANGED <<parent, inventories, items, lib, legacy>>
    /\ UNCHANGED usersFrame

\* UserRepository.update(id, data): the update where id = id and deleted_at is null
UserRepository_update(p, Ids, Data) ==
    /\ \E id \in Ids, data \in Data :
         LET live == id \in DOMAIN users /\ ~users[id].deleted
             rn == [NoRun EXCEPT !.op = "UserRepository.update", !.gone = ~live, !.data = data,
                                 !.item = [NoItem EXCEPT !.id = id], !.before = inventories]
         IN  /\ IReady(p, "idle")
             /\ users' = IF live /\ data.email # NULL
                         THEN [users EXCEPT ![id].email = data.email] ELSE users
             /\ IF live THEN IGoto(p, [rn EXCEPT !.pc = "userUpdated"])
                ELSE IFinish(p, rn, NotFoundError("User", id), inventories)
    /\ UNCHANGED <<parent, inventories, items, lib, legacy>>
    /\ UNCHANGED usersFrame

\* UserRepository.update: findById(id) after the update, and the returns
UserRepository_updated(p) ==
    /\ IReady(p, "userUpdated")
    /\ LET rows == activeUsers(users, {run[p].item.id}) IN
       IFinish(p, run[p],
               IF rows = {} THEN NotFoundError("User", run[p].item.id) ELSE RowsOk(rows),
               inventories)
    /\ UNCHANGED <<parent, inventories, items, lib, legacy>>
    /\ UNCHANGED authVars

-----------------------------------------------------------------------------
(* Specifications *)

EmptyFn == [x \in {} |-> 0]

\* the auth slice after construction: an empty store, no token issued
NoSessions ==
    /\ clock = 0
    /\ store = EmptyFn
    /\ known = {}
    /\ signedUp = {}
    /\ nextSid = 1
    /\ issues = 0
    /\ pc = [p \in Procs |-> "idle"]
    /\ op = [p \in Procs |-> "none"]
    /\ arg = [p \in Procs |-> NoTok]
    /\ uid = [p \in Procs |-> 0]
    /\ loc = [p \in Procs |-> NoLoc]
    /\ pre = [p \in Procs |-> NoPre]
    /\ last = NoLast
    /\ refreshedOk = EmptyFn
    /\ signedOut = {}
    /\ justIssued = NoPair

AuthStart ==
    /\ NoSessions
    /\ users = << >>

\* ---------------------------------------------------------------------------
\* The Result type (shared/presentation/http-errors.ts 54-104)
\* ---------------------------------------------------------------------------

\* JavaScript values a Result can carry: null, undefined, booleans, numbers, strings.
JsValue(type, n) == [type |-> type, n |-> n]

Null == JsValue("null", 0)

Undefined == JsValue("undefined", 0)

Atoms ==
    {Null, Undefined} \cup {JsValue(t, n) : t \in {"boolean", "number", "string"}, n \in 0..1}

\* new OkImpl(value): _tag is "Ok", value is the argument; the object has no error property.
OkImpl(value) == [class |-> "OkImpl", _tag |-> "Ok", has |-> {"value"}, value |-> value,
                  error |-> Undefined]

\* new ErrImpl(error): _tag is "Err", error is the argument; the object has no value property.
ErrImpl(error) == [class |-> "ErrImpl", _tag |-> "Err", has |-> {"error"}, value |-> Undefined,
                   error |-> error]

\* a Result.ok that takes a missing value for a failure
Result_ok_truthy(value) == IF value \in {Null, Undefined} THEN ErrImpl(value) ELSE OkImpl(value)

Result_ok(value) == OkImpl(value)

Result_err(error) == ErrImpl(error)

\* The methods, dispatched on the object's class.
isOk(r) == IF r.class = "OkImpl" THEN TRUE ELSE FALSE

isErr(r) == IF r.class = "OkImpl" THEN FALSE ELSE TRUE

\* Reading a property: undefined when the object does not have it.
get(r, prop) ==
    IF prop \notin r.has THEN Undefined ELSE IF prop = "value" THEN r.value ELSE r.error

\* no safeParse made
NoParse == [success |-> FALSE, data |-> Undefined, issues |-> << >>]

NoLib == [made |-> "none", input |-> Undefined, parsed |-> NoParse,
          result |-> OkImpl(Undefined), read |-> {},
          isOk |-> FALSE, isErr |-> FALSE, got |-> Undefined, threw |-> FALSE]

\* A caller builds a Result from a value.
Result_ok_call(V) ==
    \E v \in V :
        lib' = [NoLib EXCEPT !.made = "ok", !.input = v, !.result = Result_ok(v)]

Result_err_call(V) ==
    \E e \in V :
        lib' = [NoLib EXCEPT !.made = "err", !.input = e, !.result = Result_err(e)]

\* The caller calls a method of the Result it holds; a call on an object that is neither
\* class throws a TypeError.
Result_isOk ==
    /\ lib.made # "none"
    /\ ~lib.threw
    /\ lib' = [lib EXCEPT !.read = @ \cup {"isOk"}, !.isOk = isOk(lib.result),
                          !.threw = @ \/ lib.result.class \notin {"OkImpl", "ErrImpl"}]

Result_isErr ==
    /\ lib.made # "none"
    /\ ~lib.threw
    /\ lib' = [lib EXCEPT !.read = @ \cup {"isErr"}, !.isErr = isErr(lib.result),
                          !.threw = @ \/ lib.result.class \notin {"OkImpl", "ErrImpl"}]

\* The caller reads value from an Ok, error from an Err.
Result_get ==
    /\ lib.made # "none"
    /\ ~lib.threw
    /\ lib' = [lib EXCEPT !.read = @ \cup {"get"},
                          !.got = get(lib.result, IF lib.result._tag = "Ok" THEN "value"
                                                  ELSE "error")]

\* ---------------------------------------------------------------------------
\* validate (middlewares/validator.middleware.ts 32-53)
\* ---------------------------------------------------------------------------

\* new ValidationError(message, details)
ValidationError(message, details) ==
    [code |-> "VALIDATION_ERROR", message |-> message, details |-> details]

\* Array.prototype.join(".") on an issue's path
RECURSIVE join(_)
join(path) ==
    IF Len(path) = 0 THEN ""
    ELSE IF Len(path) = 1 THEN path[1]
    ELSE path[1] \o "." \o join(Tail(path))

\* What a lookup details[path] finds on the plain object details when path is not one of
\* its own properties: the members every object inherits from Object.prototype.
ObjectPrototype ==
    {"constructor", "toString", "toLocaleString", "valueOf", "hasOwnProperty",
     "isPrototypeOf", "propertyIsEnumerable"}

\* One turn of the loop over result.error.issues, on acc = the details object so far and
\* whether the loop has thrown.
validate_issue(acc, issue) ==
    LET path == IF Len(issue.path) > 0 THEN join(issue.path) ELSE "_root"
        own == path \in DOMAIN acc.details
        inherited == ~own /\ path \in ObjectPrototype
        \* if (!details[path]) details[path] = []
        details == IF own \/ inherited THEN acc.details
                   ELSE [k \in DOMAIN acc.details \cup {path} |->
                            IF k = path THEN << >> ELSE acc.details[k]]
    IN  IF acc.threw THEN acc
        \* details[path].push(issue.message): an inherited member is a function, not an
        \* array, and calling its push throws a TypeError
        ELSE IF inherited THEN [acc EXCEPT !.threw = TRUE]
        ELSE [acc EXCEPT !.details = [details EXCEPT ![path] = Append(@, issue.message)]]

RECURSIVE validate_issues(_, _)
validate_issues(acc, rest) ==
    IF rest = << >> THEN acc
    ELSE validate_issues(validate_issue(acc, Head(rest)), Tail(rest))

\* validate(schema, data), on result = schema.safeParse(data): the Result returned, or
\* threw when an exception leaves the function.
validate(result) ==
    IF result.success THEN [threw |-> FALSE, result |-> Result_ok(result.data)]
    ELSE LET acc == validate_issues([details |-> EmptyFn, threw |-> FALSE], result.issues)
         IN  [threw |-> acc.threw,
              result |-> Result_err(ValidationError("Validation failed", acc.details))]

\* Paths of issues: the root, a field, a nested field, a field whose name has a dot, an
\* array index, and fields named like members of every object.
IssuePaths ==
    {<< >>, <<"email">>, <<"user", "name">>, <<"user.name">>, <<"1">>, <<"_root">>,
     <<"constructor">>, <<"user", "toString">>}

IssueMessages == {"Required", "Invalid email"}

Issue(path, message) == [path |-> path, message |-> message]

Issues == {Issue(path, m) : path \in IssuePaths, m \in IssueMessages}

RECURSIVE IssueLists(_)
IssueLists(n) ==
    IF n = 0 THEN {<< >>}
    ELSE LET shorter == IssueLists(n - 1)
         IN  shorter \cup {Append(l, i) : l \in shorter, i \in Issues}

\* Outcomes of schema.safeParse(data): success with the parsed data, or failure with at
\* least one issue.
SafeParseResults ==
    {[success |-> TRUE, data |-> v, issues |-> << >>] : v \in Atoms}
    \cup {[success |-> FALSE, data |-> Undefined, issues |-> l] :
            l \in IssueLists(MaxZodIssues) \ {<< >>}}

\* A caller validates one input; when validate throws it gets no Result.
validate_call ==
    /\ lib.made = "none"
    /\ \E r \in SafeParseResults :
           LET out == validate(r)
           IN  lib' = [NoLib EXCEPT !.made = "validate", !.parsed = r, !.threw = out.threw,
                                    !.result = IF out.threw THEN NoLib.result
                                               ELSE out.result]

LibStep(A) ==
    A /\ UNCHANGED <<authVars, parent, inventories, items, run, ilast, prev, legacy>>

\* no inventory call in progress
InvIdle ==
    /\ run = [p \in Workers |-> NoRun]
    /\ ilast = NoILast
    /\ prev = NoPrev
    /\ lib = NoLib
    /\ legacy = NoLegacy

Init ==
    /\ AuthStart
    /\ parent = [s \in Spaces |-> 0]
    /\ inventories = EmptyBag
    /\ items = {}
    /\ InvIdle

\* Concurrent requests of one user, Redis reachable; the clock second changes
\* between requests
Next ==
    \/ \E p \in Procs : StartIssue(p, OneUser, MaxIssues)
    \/ \E p \in Procs : StartRefresh(p, RefreshTokens, MaxIssues)
    \/ \E p \in Procs : StartSignOut(p, RefreshTokens)
    \/ \E p \in Procs : StartVerifyRefresh(p, RefreshTokens)
    \/ \E p \in Procs : verifyRefreshToken_verify(p)
    \/ \E p \in Procs : verifyRefreshToken_check(p)
    \/ \E p \in Procs : verifyRefreshToken_get(p, {FALSE})
    \/ \E p \in Procs : invalidateRefreshToken_del(p, {FALSE})
    \/ \E p \in Procs : generateTokenPair_sign(p)
    \/ \E p \in Procs : generateTokenPair_setEx(p, {FALSE})
    \/ ((\A q \in Procs : pc[q] = "idle") /\ Tick(SameSecond))
    \/ Respond

Spec == Init /\ [][Next]_vars

\* One request at a time over the lifetime of a token: the clock advances
\* to any later instant between two requests and by one second while a request
\* is being served, Redis calls may throw, and forged or malformed tokens are
\* presented
TimeNext ==
    \/ StartIssue("r1", Users, TimeMaxIssues)
    \/ StartRefresh("r1", Tokens, TimeMaxIssues)
    \/ StartVerifyRefresh("r1", Tokens)
    \/ StartVerifyAccess("r1", AccessArgs)
    \/ verifyRefreshToken_verify("r1")
    \/ verifyRefreshToken_check("r1")
    \/ verifyRefreshToken_get("r1", BOOLEAN)
    \/ verifyAccessToken_verify("r1")
    \/ verifyAccessToken_check("r1")
    \/ invalidateRefreshToken_del("r1", BOOLEAN)
    \/ generateTokenPair_sign("r1")
    \/ generateTokenPair_setEx("r1", BOOLEAN)
    \/ (pc["r1"] = "idle" /\ Tick(Instants))
    \/ (pc["r1"] # "idle" /\ Tick(Instants \cap {clock + 1}))
    \/ RedisExpire
    \/ Respond

TimeSpec == Init /\ [][TimeNext]_vars

\* Access tokens in use while their sessions are rotated, signed out and expire: one
\* request at a time, the clock advances between requests and while one is served
AccessNext ==
    \/ StartIssue("r1", OneUser, AccessMaxIssues)
    \/ StartRefresh("r1", RefreshTokens, AccessMaxIssues)
    \/ StartSignOut("r1", RefreshTokens)
    \/ StartVerifyAccess("r1", AccessArgs)
    \/ verifyRefreshToken_verify("r1")
    \/ verifyRefreshToken_check("r1")
    \/ verifyRefreshToken_get("r1", {FALSE})
    \/ verifyAccessToken_verify("r1")
    \/ verifyAccessToken_check("r1")
    \/ invalidateRefreshToken_del("r1", {FALSE})
    \/ generateTokenPair_sign("r1")
    \/ generateTokenPair_setEx("r1", {FALSE})
    \/ (pc["r1"] = "idle" /\ Tick(Instants))
    \/ (pc["r1"] # "idle" /\ Tick(Instants \cap {clock + 1}))
    \/ RedisExpire
    \/ Respond

AccessSpec == Init /\ [][AccessNext]_vars

\* invalidateRefreshToken called on its own, on issued tokens before and after their
\* expiry, forgeries and strings that are no tokens, with Redis answering
InvalidateNext ==
    \/ StartIssue("r1", OneUser, InvalidateMaxIssues)
    \/ generateTokenPair_sign("r1")
    \/ generateTokenPair_setEx("r1", {FALSE})
    \/ StartInvalidate("r1", Tokens \cup {NoClaims})
    \/ invalidateRefreshToken_del("r1", {FALSE})
    \/ (pc["r1"] = "idle" /\ Tick(Instants))
    \/ RedisExpire
    \/ Respond

InvalidateSpec == Init /\ [][InvalidateNext]_vars

\* The same requests when time goes on and work that is ready gets done: the clock does not
\* stop while instants remain, Redis drops the keys whose TTL has run out, and a request
\* that was started is served to its end
ExpirySpec ==
    /\ TimeSpec
    /\ SF_vars(pc["r1"] = "idle" /\ Tick(Instants))
    /\ SF_vars(RedisExpire)
    /\ WF_vars(Respond)
    /\ WF_vars(verifyRefreshToken_verify("r1") \/ verifyRefreshToken_check("r1")
                 \/ verifyRefreshToken_get("r1", BOOLEAN)
                 \/ verifyAccessToken_verify("r1") \/ verifyAccessToken_check("r1")
                 \/ invalidateRefreshToken_del("r1", BOOLEAN)
                 \/ generateTokenPair_sign("r1") \/ generateTokenPair_setEx("r1", BOOLEAN))

\* the chain of parent_id links above space s in f, followed for at most n links
RECURSIVE Up(_, _, _)
Up(f, s, n) ==
    IF n = 0 \/ f[s] = 0 THEN {} ELSE {f[s]} \cup Up(f, f[s], n - 1)

Ancestors(f, s) == Up(f, s, Cardinality(Spaces))

\* spaces tables: any parent_id links, and those that form a forest
Graphs == [Spaces -> Spaces \cup {0}]
Forests == {f \in Graphs : \A s \in Spaces : s \notin Ancestors(f, s)}

\* a record another writer created earlier, with stock and a cost of its own
existingRow(itemId, spaceId) ==
    [itemId |-> itemId, itemType |-> "ITM", spaceId |-> spaceId, spaceType |-> "SPACE",
     balance |-> "5", costPerUnit |-> "1.00", modelType |-> "SUP", parentType |-> "IVT"]

\* inventories tables propagation may find: item 42 already has records in some spaces
Tables == {SetToBag({existingRow(42, s) : s \in S}) : S \in SUBSET Spaces}

\* items handed to propagateToChildSpaces: with and without a space, a cost, a space type
PropItems ==
    {[id |-> 42, spaceId |-> s, spaceType |-> NULL, cost |-> "9.99"] : s \in Spaces \cup {0}}
    \cup {[id |-> 43, spaceId |-> s, spaceType |-> "ORG", cost |-> NULL] : s \in Spaces \cup {0}}
RaceItems ==
    {[id |-> 42, spaceId |-> s, spaceType |-> NULL, cost |-> "9.99"] : s \in Spaces}

\* One propagateToChildSpaces call at a time over every forest and every table
\* of earlier records; database calls may throw
PropInit ==
    /\ AuthStart
    /\ parent \in Forests
    /\ inventories \in Tables
    /\ items = {}
    /\ InvIdle

PropNext ==
    \/ propagateToChildSpaces_start("w1", PropItems)
    \/ findChildrenIds_recurse("w1", BOOLEAN)
    \/ findExistingSpaceIds_query("w1", BOOLEAN)
    \/ createBatch_insert("w1", BOOLEAN)
    \/ IRespond

PropSpec == PropInit /\ [][PropNext]_vars

\* Concurrent propagateToChildSpaces calls on an empty table, database reachable
RaceInit ==
    /\ AuthStart
    /\ parent \in Forests
    /\ inventories = EmptyBag
    /\ items = {}
    /\ InvIdle

RaceNext ==
    \/ \E p \in Workers : propagateToChildSpaces_start(p, RaceItems)
    \/ \E p \in Workers : findChildrenIds_recurse(p, {FALSE})
    \/ \E p \in Workers : findExistingSpaceIds_query(p, {FALSE})
    \/ \E p \in Workers : createBatch_insert(p, {FALSE})
    \/ IRespond

RaceSpec == RaceInit /\ [][RaceNext]_vars

\* findChildrenIds on every spaces table, with cycles of parent_id links; the
\* database does not stop in the middle of a query it is running
CteInit ==
    /\ AuthStart
    /\ parent \in Graphs
    /\ inventories = EmptyBag
    /\ items = {}
    /\ InvIdle

CteNext ==
    \/ findChildrenIds_start("w1", Spaces)
    \/ findChildrenIds_recurse("w1", BOOLEAN)
    \/ IRespond

CteSpec == CteInit /\ [][CteNext]_vars /\ WF_vars(findChildrenIds_recurse("w1", BOOLEAN))

\* Sign-up and sign-in requests, one at a time; database and Redis calls may throw
UserNext ==
    \/ StartSignUp("r1", DTOs, MaxUserRequests)
    \/ StartSignIn("r1", DTOs, MaxUserRequests)
    \/ signUp_emailExists("r1", BOOLEAN)
    \/ create_insert("r1", BOOLEAN)
    \/ create_findById("r1", BOOLEAN)
    \/ signIn_findByEmail("r1", BOOLEAN)
    \/ signIn_argonVerify("r1")
    \/ generateTokenPair_sign("r1")
    \/ generateTokenPair_setEx("r1", BOOLEAN)
    \/ Respond

UserSpec == Init /\ [][UserNext]_vars

\* the requests of ErrSpec: one email, a right and a wrong password
ErrDTOs == {dto \in DTOs : dto.email = "a@x"}

\* the one item the calls of ErrSpec are about
ErrItems == {[id |-> 42, spaceId |-> 1, spaceType |-> NULL, cost |-> "9.99"]}

\* Every operation that hands on the Err of a collaborator: sign-up, sign-in
\* and sign-out requests one at a time, and propagateToChildSpaces and
\* findByItemId calls one at a time, over a chain of three spaces and an empty
\* inventories table; every database and Redis call may throw
ErrInit ==
    /\ AuthStart
    /\ parent = [s \in Spaces |-> s - 1]
    /\ inventories = EmptyBag
    /\ items = {}
    /\ InvIdle

ErrNext ==
    \/ StartSignUp("r1", ErrDTOs, ErrMaxRequests)
    \/ StartSignIn("r1", ErrDTOs, ErrMaxRequests)
    \/ StartSignOut("r1", Tokens)
    \/ signUp_emailExists("r1", BOOLEAN)
    \/ create_insert("r1", BOOLEAN)
    \/ create_findById("r1", BOOLEAN)
    \/ signIn_findByEmail("r1", BOOLEAN)
    \/ signIn_argonVerify("r1")
    \/ verifyRefreshToken_verify("r1")
    \/ verifyRefreshToken_check("r1")
    \/ verifyRefreshToken_get("r1", BOOLEAN)
    \/ invalidateRefreshToken_del("r1", BOOLEAN)
    \/ generateTokenPair_sign("r1")
    \/ generateTokenPair_setEx("r1", BOOLEAN)
    \/ Respond
    \/ propagateToChildSpaces_start("w1", ErrItems)
    \/ findChildrenIds_recurse("w1", BOOLEAN)
    \/ findExistingSpaceIds_query("w1", BOOLEAN)
    \/ createBatch_insert("w1", BOOLEAN)
    \/ findByItemId_start("w1", {42})
    \/ findByItemId_query("w1", BOOLEAN)
    \/ IRespond

ErrSpec == ErrInit /\ [][ErrNext]_vars

\* what comes before the token in the headers presented: the right prefix, a
\* lower-case one, another scheme, the prefix without its space, the prefix
\* with a second space, and nothing
Prefixes ==
    {BearerPrefix,
     <<"b", "e", "a", "r", "e", "r", " ">>,
     <<"B", "a", "s", "i", "c", " ">>,
     <<"B", "e", "a", "r", "e", "r">>,
     BearerPrefix \o <<" ">>,
     << >>}

\* the Authorization headers presented: none, and every prefix followed by
\* nothing, by a token the server has issued, by a forged or by a malformed one
Headers == {NoHeader} \cup {Header(x, t) : x \in Prefixes, t \in AccessArgs \cup {NoTok}}

\* Requests to a protected route, one at a time, with tokens issued for two
\* users and the clock passing their expiry instants
GateNext ==
    \/ StartIssue("r1", Users, GateMaxIssues)
    \/ generateTokenPair_sign("r1")
    \/ generateTokenPair_setEx("r1", {FALSE})
    \/ authMiddleware_start("r1", Headers)
    \/ verifyAccessToken_verify("r1")
    \/ verifyAccessToken_check("r1")
    \/ (pc["r1"] = "idle" /\ Tick(Instants))
    \/ Respond

GateSpec == Init /\ [][GateNext]_vars

\* Callers of Result: build one from any value, then call its methods and read it.
LibNext ==
    \/ LibStep(Result_ok_call(Atoms))
    \/ LibStep(Result_err_call(Atoms))
    \/ LibStep(Result_isOk)
    \/ LibStep(Result_isErr)
    \/ LibStep(Result_get)

LibSpec == Init /\ [][LibNext]_vars

\* Callers of validate: validate, then use the Result.
ValidateNext ==
    \/ LibStep(validate_call)
    \/ LibStep(Result_isOk)
    \/ LibStep(Result_isErr)
    \/ LibStep(Result_get)

ValidateSpec == Init /\ [][ValidateNext]_vars

\* an items row
itemRow(id, spaceId, deleted) ==
    [id |-> id, spaceId |-> spaceId, spaceType |-> NULL, cost |-> "9.99", deleted |-> deleted,
     name |-> "item", status |-> IF deleted THEN "archived" ELSE "active"]

\* items tables: item 42 in space 1 and item 43 in space 2 or in no space,
\* each of them missing, present, or soft-deleted
ItemTables ==
    {rows42 \cup rows43 :
        rows42 \in {{}, {itemRow(42, 1, FALSE)}, {itemRow(42, 1, TRUE)}},
        rows43 \in {{}, {itemRow(43, 2, FALSE)}, {itemRow(43, 2, TRUE)},
                    {itemRow(43, 0, FALSE)}}}

\* POST /items/:id/inventory requests, one at a time, over a chain of three
\* spaces; database calls may throw
ItemInit ==
    /\ AuthStart
    /\ parent = [s \in Spaces |-> s - 1]
    /\ inventories = EmptyBag
    /\ items \in ItemTables
    /\ InvIdle

ItemNext ==
    \/ postItemInventory_start("w1", {42, 43})
    \/ postItemInventory_findById("w1", BOOLEAN)
    \/ findChildrenIds_recurse("w1", BOOLEAN)
    \/ findExistingSpaceIds_query("w1", BOOLEAN)
    \/ createBatch_insert("w1", BOOLEAN)
    \/ IRespond

ItemSpec == ItemInit /\ [][ItemNext]_vars

\* the ItemStatus values, and the fields an update may give
ItemStatuses == {"active", "inactive", "archived"}
ItemData == {[NoData EXCEPT !.name = n, !.status = st] :
                n \in {NULL, "renamed"}, st \in {NULL, "active", "archived"}}
UserData == {[NoData EXCEPT !.email = e] : e \in {NULL} \cup Emails}

\* users tables of up to two users, none of them deleted
UserTables ==
    {<< >>} \cup {<<userRow(e, "h")>> : e \in Emails}
            \cup {<<userRow("a@x", "h"), userRow(e, "h")>> : e \in Emails}

\* repository calls one at a time, over tables in which nothing is deleted yet
RepoInit ==
    /\ NoSessions
    /\ users \in UserTables
    /\ parent = [s \in Spaces |-> s - 1]
    /\ inventories = EmptyBag
    /\ items \in SUBSET {itemRow(42, 1, FALSE), itemRow(43, 2, FALSE)}
    /\ InvIdle

RepoNext ==
    \/ ItemRepository_findById("w1", {42, 43})
    \/ ItemRepository_findAll("w1")
    \/ ItemRepository_findAllWithQuery("w1", ItemStatuses)
    \/ ItemRepository_findByIdIncludingDeleted("w1", {42, 43})
    \/ ItemRepository_start("w1", {42, 43}, ItemData)
    \/ ItemRepository_existing("w1")
    \/ ItemRepository_write("w1")
    \/ ItemRepository_updated("w1")
    \/ UserRepository_read("w1", {1, 2})
    \/ UserRepository_delete("w1", {1, 2})
    \/ UserRepository_update("w1", {1, 2}, UserData)
    \/ UserRepository_updated("w1")
    \/ IRespond

RepoSpec == RepoInit /\ [][RepoNext]_vars

\* two requests at a time update and delete item 42
ItemRaceInit ==
    /\ AuthStart
    /\ parent = [s \in Spaces |-> s - 1]
    /\ inventories = EmptyBag
    /\ items = {itemRow(42, 1, FALSE)}
    /\ InvIdle

ItemRaceNext ==
    \E p \in Workers :
        \/ ItemRepository_start(p, {42}, ItemData)
        \/ ItemRepository_existing(p)
        \/ ItemRepository_write(p)
        \/ ItemRepository_updated(p)
        \/ IRespond

ItemRaceSpec == ItemRaceInit /\ [][ItemRaceNext]_vars

\* the sign-up requests of SignUpRaceSpec
SignUpRaceMaxRequests == 2

\* a unique index on users.email, if the schema has one, makes the insert throw
\* when a row with the email is there; without one the insert goes through
duplicateKey(table, email) ==
    IF \E i \in DOMAIN table : table[i].email = email THEN BOOLEAN ELSE {FALSE}

\* two sign-up requests at a time with one email; the database and Redis answer
SignUpRaceNext ==
    \E p \in Procs :
        \/ StartSignUp(p, ErrDTOs, SignUpRaceMaxRequests)
        \/ signUp_emailExists(p, {FALSE})
        \/ create_insert(p, duplicateKey(users, arg[p].email))
        \/ create_findById(p, {FALSE})
        \/ generateTokenPair_sign(p)
        \/ generateTokenPair_setEx(p, {FALSE})
        \/ Respond

SignUpRaceSpec == Init /\ [][SignUpRaceNext]_vars

\* the instants around the renewal and the expiry of a session created at 0, and
\* of one renewed at its first renewal instant
SessionInstants ==
    {0, 1, SESSION_RENEWAL - 1, SESSION_RENEWAL, SESSION_RENEWAL + 1, SESSION_LIFETIME - 1,
     SESSION_LIFETIME, SESSION_LIFETIME + 1, 2 * SESSION_RENEWAL + 1,
     SESSION_RENEWAL + SESSION_LIFETIME}

\* cookie sessions of two users, one call at a time, over the lifetime of a session
LegacyNext ==
    \/ createSession({1, 2})
    \/ validateSessionToken_findUnique(SessionTokens)
    \/ validateSessionToken_check
    \/ validateSessionToken_delete
    \/ validateSessionToken_update
    \/ invalidateSession(SessionTokens)
    \/ invalidateAllSessions({1, 2})
    \/ LegacyRespond
    \/ LegacyTick(SessionInstants)

LegacySpec == Init /\ [][LegacyNext]_vars

-----------------------------------------------------------------------------
(* Properties of the auth slice *)

KeyOf(t) == getRefreshTokenKey(t.sub, t.jti)

\* the store holds an entry under t's key and t verifies against its hash
EntryMatches(t) == Has(KeyOf(t)) /\ argonVerify(store[KeyOf(t)].hash, t)

\* C1 (as claimed): a verifyRefreshToken(t) call begun after refresh(t) has
\* returned Ok fails with InvalidTokenError, whatever the time between the
\* issue of t and the refresh - also when both fall in one clock second.
C1_RotationInvalidation ==
    (last.op = "verifyRefreshToken" /\ last.pre.rotated) =>
        (last.res.tag = "Err" /\ last.res.code = "INVALID_TOKEN")

\* C2 (as claimed): whatever the interleaving of the refresh(t) requests, at
\* most one of them returns Ok with a new token pair (a pair whose refresh
\* token is not t itself).
C2_NoDoubleRefresh ==
    \A t \in DOMAIN refreshedOk : refreshedOk[t].new <= 1

\* C3 (as claimed): once signOut has returned Ok(true) for a session, the store
\* holds no entry under its key, and no verifyRefreshToken, refresh or signOut
\* begun afterwards with a token of the session succeeds.
C3_SignOutRevokes ==
    /\ \A k \in signedOut : ~Has(k)
    /\ (last.pre.revoked /\ last.op \in {"verifyRefreshToken", "refresh", "signOut"})
          => last.res.tag = "Err"

\* C4 (as claimed): verifyRefreshToken(t) returns Ok only if t is signed with
\* the secret, had not expired when it was verified, and the store holds an
\* entry under t's key whose hash t matches; whenever the entry is absent or
\* the hash does not match, the result is InvalidTokenError.
C4_AsClaimed ==
    last.op = "verifyRefreshToken" =>
        /\ last.res.tag = "Ok" =>
              (last.arg.sig = "HS256" /\ last.verifiedAt < last.arg.exp /\ EntryMatches(last.arg))
        /\ ~EntryMatches(last.arg) =>
              (last.res.tag = "Err" /\ last.res.code = "INVALID_TOKEN")

\* C4 (amended): verifyRefreshToken(t) returns Ok only if t is signed with the
\* secret, had not expired when it was verified, and the store holds an entry
\* under t's key whose hash t matches; when the entry is absent or the hash
\* does not match, the result is an Err: TokenExpiredError if t has expired
\* (the expiry is checked before the store is read), InvalidTokenError otherwise.
C4_RefreshTokenValidity ==
    last.op = "verifyRefreshToken" =>
        /\ last.res.tag = "Ok" =>
              (last.arg.sig = "HS256" /\ last.verifiedAt < last.arg.exp /\ EntryMatches(last.arg))
        /\ ~EntryMatches(last.arg) =>
              /\ last.res.tag = "Err"
              /\ \/ last.res.code = "INVALID_TOKEN"
                 \/ last.res.code = "TOKEN_EXPIRED" /\ last.arg.exp <= clock

\* an expired token whose entry the TTL has removed is answered TokenExpiredError
C4_Witness ==
    /\ last.op = "verifyRefreshToken"
    /\ last.arg.sig = "HS256"
    /\ last.res.code = "TOKEN_EXPIRED"
    /\ ~Has(KeyOf(last.arg))

\* C5: while nothing has intervened since generateTokenPair(userId) returned
\* Ok(accessToken, refreshToken) - no other operation, no clock advance, Redis
\* answering - verifyAccessToken(accessToken) returns Ok with sub = userId, and
\* verifyRefreshToken(refreshToken) returns Ok with sub = userId and jti = the
\* session id the store entry was written under.
C5_TokenRoundTrip ==
    justIssued # NoPair =>
        /\ (last.op = "verifyAccessToken" /\ last.arg = justIssued.accessToken) =>
              (last.res.tag = "Ok" /\ last.res.payload.sub = justIssued.userId)
        /\ (last.op = "verifyRefreshToken" /\ last.arg = justIssued.refreshToken
                /\ ~last.threw) =>
              /\ last.res.tag = "Ok"
              /\ last.res.payload.sub = justIssued.userId
              /\ last.res.payload.jti = justIssued.jti
              /\ Has(getRefreshTokenKey(justIssued.userId, justIssued.jti))

\* a refresh token verified right after its issue to the second user
C5_Witness ==
    /\ justIssued # NoPair
    /\ justIssued.userId = 2
    /\ last.op = "verifyRefreshToken"
    /\ last.arg = justIssued.refreshToken
    /\ last.res.tag = "Ok"

-----------------------------------------------------------------------------
(* Properties of inventory propagation *)

ItemIds == {42, 43}

\* how many rows the table holds for an item in a space
RecordsFor(table, itemId, spaceId) ==
    LET rows == {r \in BagToSet(table) : r.itemId = itemId /\ r.spaceId = spaceId} IN
    BagCardinality([r \in rows |-> table[r]])

\* the spaces below s in the hierarchy
Descendants(s) == {t \in Spaces : s \in Ancestors(parent, t)}

\* the descendants of the item's space that have no record of the item in the table
Missing(item, table) ==
    {s \in Descendants(item.spaceId) : RecordsFor(table, item.id, s) = 0}

\* the rows the call that has just returned added to the table
Created == inventories (-) ilast.before

\* a propagateToChildSpaces call that returned Ok created one record for each
\* missing descendant and nothing else, each with balance "0" and the cost
\* costOf gives, and returned their number
Propagated(costOf(_)) ==
    (ilast.op = "propagateToChildSpaces" /\ ilast.item.spaceId # 0 /\ ilast.res.tag = "Ok") =>
        /\ ilast.before \sqsubseteq inventories
        /\ \A i \in ItemIds, s \in Spaces :
              RecordsFor(Created, i, s) =
                 IF i = ilast.item.id /\ s \in Missing(ilast.item, ilast.before) THEN 1 ELSE 0
        /\ \A r \in BagToSet(Created) :
              r.balance = "0" /\ r.costPerUnit = costOf(ilast.item)
        /\ ilast.res.updatedCount = BagCardinality(Created)

itemCost(item) == item.cost
storedCost(item) == IF item.cost = NULL THEN "0" ELSE item.cost

\* C6 (as claimed): in every interleaving of propagateToChildSpaces calls the
\* inventories table holds at most one record per (itemId, spaceId) pair.
C6_InventoryUniqueness ==
    \A i \in ItemIds, s \in Spaces : RecordsFor(inventories, i, s) <= 1

\* C7 (as claimed): a propagateToChildSpaces(item) call with a non-null spaceId
\* that returns Ok has created exactly one record for each descendant space
\* that had none for the item and no other record, each with balance "0" and
\* costPerUnit equal to item.cost, and returns their number as updatedCount.
C7_PropagationResult == Propagated(itemCost)

\* What the code does: as C7, with costPerUnit "0" for an item whose cost is
\* null; and a call that returns Err has created nothing.
PropagationAsImplemented ==
    /\ Propagated(storedCost)
    /\ (ilast.op = "propagateToChildSpaces" /\ ilast.res.tag = "Err") =>
          inventories = ilast.before

\* C8: when propagateToChildSpaces(item) returns right after an earlier call
\* with the same item returned Ok (one caller, no other writer), the table
\* equals the table the earlier call left, and the call returns
\* updatedCount = 0 (Ok whenever the database answers).
C8_PropagationIdempotence ==
    (ilast.op = "propagateToChildSpaces" /\ ilast.prev.tag = "Ok"
        /\ ilast.prev.item = ilast.item) =>
        /\ inventories = ilast.prev.after
        /\ ilast.res.tag = "Ok" => ilast.res.updatedCount = 0
        /\ ~ilast.threw => ilast.res.tag = "Ok"

\* a second call on an item whose first call created records
C8_Witness ==
    /\ ilast.op = "propagateToChildSpaces"
    /\ ilast.prev.item = ilast.item
    /\ ilast.prev.tag = "Ok"
    /\ ilast.prev.updatedCount >= 2
    /\ ilast.calls.inventories = 1
    /\ ilast.res = PropagationOk(0)

\* C9: propagateToChildSpaces on an item whose spaceId is null returns Ok with
\* updatedCount = 0 after no round-trip to the spaces or inventories table;
\* on an item whose space has no descendant, or whose descendants all have a
\* record, it sends no insert, leaves the table as it was, and returns
\* updatedCount = 0 (Ok whenever the database answers).
C9_PropagationNoOp ==
    ilast.op = "propagateToChildSpaces" =>
        /\ ilast.item.spaceId = 0 =>
              /\ ilast.res = PropagationOk(0)
              /\ ilast.calls = NoCalls
              /\ inventories = ilast.before
        /\ (ilast.item.spaceId # 0 /\ Missing(ilast.item, ilast.before) = {}) =>
              /\ ilast.calls.inserts = 0
              /\ inventories = ilast.before
              /\ ilast.res.tag = "Ok" => ilast.res.updatedCount = 0
              /\ ~ilast.threw => ilast.res.tag = "Ok"

\* an unassigned item propagated while the table holds records
C9_Witness ==
    /\ ilast.op = "propagateToChildSpaces"
    /\ ilast.item.spaceId = 0
    /\ ilast.res = PropagationOk(0)
    /\ inventories # EmptyBag

C11_ClosureCorrectness ==
    ilast.op = "findChildrenIds" =>
        /\ ilast.res.tag = "Ok" =>
              /\ BagToSet(ilast.res.childIds) = Descendants(ilast.spaceId)
              /\ ilast.spaceId \notin BagToSet(ilast.res.childIds)
              /\ \A s \in BagToSet(ilast.res.childIds) : ilast.res.childIds[s] = 1
        /\ (~ilast.threw /\ ilast.spaceId \notin Ancestors(parent, ilast.spaceId)) =>
              ilast.res.tag = "Ok"

\* the closure of a space with a child and a grandchild
C11_Witness ==
    /\ ilast.op = "findChildrenIds"
    /\ ilast.res.tag = "Ok"
    /\ Cardinality(BagToSet(ilast.res.childIds)) = 2
    /\ \E s \in BagToSet(ilast.res.childIds) : parent[s] # ilast.spaceId

\* C12: when the database answers, a signIn with an email no user holds and a
\* signIn with a user's email and another password than the user's both
\* return the one Err(InvalidCredentialsError) value, the same code and
\* message, and leave the token store as it was when the request came in.
C12_UniformSignInFailure ==
    (last.op = "signIn" /\ ~last.threw) =>
        LET holders == {i \in DOMAIN users :
                           users[i].email = last.arg.email /\ ~users[i].deleted}
            unknownEmail == holders = {}
            wrongPassword == \E i \in holders : users[i].password # hash(last.arg.password)
        IN (unknownEmail \/ wrongPassword) =>
              /\ last.res.tag = "Err"
              /\ last.res.code = "INVALID_CREDENTIALS"
              /\ last.res.message = "Invalid email or password"
              /\ store = last.pre.store

\* a signIn with the email of a signed-up user and a wrong password, made
\* while that user holds a session in the token store
C12_Witness ==
    /\ last.op = "signIn"
    /\ last.res = InvalidCredentialsError
    /\ last.arg.email \in signedUp
    /\ \E i \in DOMAIN users :
          /\ users[i].email = last.arg.email
          /\ users[i].password # hash(last.arg.password)
          /\ \E k \in DOMAIN store : k[2] = i

\* C13: when the database answers, a signUp for an email for which an earlier
\* signUp returned Ok returns Err(EmailAlreadyExistsError) with code
\* "EMAIL_ALREADY_EXISTS", and leaves the users table and the token store as
\* they were when the request came in.
C13_DuplicateSignUp ==
    (last.op = "signUp" /\ ~last.threw /\ last.arg.email \in last.pre.signedUp) =>
        /\ last.res.tag = "Err"
        /\ last.res.code = "EMAIL_ALREADY_EXISTS"
        /\ users = last.pre.users
        /\ store = last.pre.store

\* a second signUp for a signed-up email, with another password than the
\* first, refused while the first user's session is in the token store
C13_Witness ==
    /\ last.op = "signUp"
    /\ last.arg.email \in last.pre.signedUp
    /\ last.res = EmailAlreadyExistsError(last.arg.email)
    /\ \E i \in DOMAIN users :
          /\ users[i].email = last.arg.email
          /\ users[i].password # hash(last.arg.password)
          /\ \E k \in DOMAIN store : k[2] = i

\* C14: a refresh whose Invalidate step returned Err goes no further: it is
\* never found at the Issue step, neither signing a new pair nor writing its
\* entry.
C14_RotationErrorsPropagate ==
    \A p \in Procs :
        (op[p] = "refresh" /\ loc[p].invalidateResult.tag = "Err") =>
            pc[p] \notin {"generate", "setex"}

\* C15: a refresh that has deleted the old entry of its session and then
\* returns Err does not leave the session without an entry in the token store.
C15_RotationAtomic ==
    (last.op = "refresh" /\ last.res.tag = "Err" /\ last.invalidateResult.tag = "Ok") =>
        getRefreshTokenKey(last.arg.sub, last.arg.jti) \in DOMAIN store

\* C16: a refresh or sign-out request whose service result is
\* Err(TokenExpiredError) or Err(InvalidTokenError) is answered with status 401.
C16_TokenErrorsAre401 ==
    (/\ last.op \in {"refresh", "signOut"}
     /\ last.res.tag = "Err"
     /\ last.res.code \in {"TOKEN_EXPIRED", "INVALID_TOKEN"}) =>
        last.response.status = 401

\* C17: a sign-up request whose service result is Err(EmailAlreadyExistsError)
\* and a sign-in request whose service result is Err(InvalidCredentialsError)
\* are answered with status 400, and only a DatabaseError is answered with 500.
C17_CredentialErrorsAre400 ==
    /\ (last.op = "signUp" /\ last.res.tag = "Err" /\ last.res.code = "EMAIL_ALREADY_EXISTS") =>
          last.response.status = 400
    /\ (last.op = "signIn" /\ last.res.tag = "Err" /\ last.res.code = "INVALID_CREDENTIALS") =>
          last.response.status = 400
    /\ (last.op \in {"signUp", "signIn"} /\ last.response.status = 500) =>
          last.res.code = "DATABASE_ERROR"

\* C18: an operation during which a token-store or database call failed
\* returns Err(DatabaseError).
C18_StorageFailuresAreDatabaseErrors ==
    last.threw => (last.res.tag = "Err" /\ last.res.code = "DATABASE_ERROR")

\* C19: in signUp, signIn, signOut, propagateToChildSpaces and
\* InventoryService.findByItemId, when a collaborator call has returned Err the
\* operation returns at once, with an Err of the same code and message: it is
\* never found going on after an Err, and the Result it returns carries the
\* collaborator's error.
C19_ErrPropagatesUnchanged ==
    /\ \A p \in Procs :
          op[p] \in {"signUp", "signIn", "signOut"} => loc[p].collab.tag # "Err"
    /\ (last.op \in {"signUp", "signIn", "signOut"} /\ last.collab.tag = "Err") =>
          /\ last.res.tag = "Err"
          /\ last.res.code = last.collab.code
          /\ last.res.message = last.collab.message
    /\ \A w \in Workers :
          run[w].op \in {"propagateToChildSpaces", "findByItemId"} => run[w].collab.tag # "Err"
    /\ (ilast.op \in {"propagateToChildSpaces", "findByItemId"} /\ ilast.collab.tag = "Err") =>
          /\ ilast.res.tag = "Err"
          /\ ilast.res.code = ilast.collab.code
          /\ ilast.res.message = ilast.collab.message

\* a signOut that returns the InvalidTokenError of verifyRefreshToken for a
\* token it had revoked before, and a propagateToChildSpaces that returns the
\* DatabaseError of its second collaborator, findExistingSpaceIds
C19_Witness ==
    /\ last.op = "signOut"
    /\ last.collab = InvalidTokenError("Refresh token not found or already revoked")
    /\ last.res = last.collab
    /\ ilast.op = "propagateToChildSpaces"
    /\ ilast.calls.inventories = 1
    /\ ilast.collab.tag = "Err"
    /\ ilast.res = ilast.collab

\* C20: when the database answers, POST /items/:id/inventory for an id that
\* no item has, or only a soft-deleted item, is answered 404 with code
\* NOT_FOUND; propagateToChildSpaces is not called, no query goes to the spaces
\* or inventories tables, and the inventories table is as it was.
C20_MissingItemIs404 ==
    (/\ ilast.route
     /\ ~ilast.threw
     /\ \A row \in items : row.id = ilast.item.id => row.deleted) =>
        /\ ilast.response.status = 404
        /\ ilast.response.body.code = "NOT_FOUND"
        /\ ilast.op # "propagateToChildSpaces"
        /\ ilast.calls = NoCalls
        /\ inventories = ilast.before

\* the request for a soft-deleted item that has a space, answered 404 after a
\* request for another item has created records
C20_Witness ==
    /\ ilast.route
    /\ ilast.response.status = 404
    /\ \E row \in items : row.id = ilast.item.id /\ row.deleted /\ row.spaceId # 0
    /\ inventories # EmptyBag

\* C21: the auth middleware calls next only for a request whose Authorization
\* header is "Bearer " followed by a non-empty token for which
\* verifyAccessToken returned Ok, and then userId in the context is the sub of
\* the payload; it calls next for every such request, and answers every other
\* request 401.
C21_MiddlewareGate ==
    last.op = "authMiddleware" =>
        LET h == last.pre.header
            bearer == /\ h.present
                      /\ Len(h.prefix) >= 7
                      /\ \A i \in 1..7 : h.prefix[i] = BearerPrefix[i]
                      /\ (Len(h.prefix) > 7 \/ h.token # NoTok)
        IN /\ last.next <=> (bearer /\ last.res.tag = "Ok")
           /\ last.next => (last.ctxUserId = last.res.payload.sub /\ last.arg = h.token)
           /\ ~last.next => last.response.status = 401

\* a request with the access token of user 2, let through after time has passed
C21_Witness ==
    /\ last.op = "authMiddleware"
    /\ last.next
    /\ last.ctxUserId = 2
    /\ clock > 0

\* C22: Result.ok(v) has tag Ok, isOk() true, isErr() false and value v; Result.err(e) has
\* tag Err, isErr() true, isOk() false and error e; this holds for null and undefined too,
\* and isOk and isErr never throw.
C22_ResultTotality ==
    /\ ~lib.threw
    /\ lib.made = "ok" =>
           /\ lib.result._tag = "Ok"
           /\ "isOk" \in lib.read => lib.isOk = TRUE
           /\ "isErr" \in lib.read => lib.isErr = FALSE
           /\ "get" \in lib.read => lib.got = lib.input
           /\ get(lib.result, "value") = lib.input
    /\ lib.made = "err" =>
           /\ lib.result._tag = "Err"
           /\ "isOk" \in lib.read => lib.isOk = FALSE
           /\ "isErr" \in lib.read => lib.isErr = TRUE
           /\ "get" \in lib.read => lib.got = lib.input
           /\ get(lib.result, "error") = lib.input

C22_Witness ==
    /\ lib.made = "ok"
    /\ lib.input = Null
    /\ lib.read = {"isOk", "isErr", "get"}
    /\ lib.isOk /\ ~lib.isErr /\ lib.got = Null

\* C23: validate returns Ok(parsed data) when the schema accepts the input, and otherwise
\* Err(ValidationError) with code VALIDATION_ERROR whose details map holds, under each
\* issue's path joined with "." ("_root" for the empty path), that path's messages in the
\* order of the issues.
C23_ValidationFailureMapping ==
    lib.made = "validate" =>
        LET r == lib.parsed
            key(i) == IF r.issues[i].path = << >> THEN "_root" ELSE join(r.issues[i].path)
            keys == {key(i) : i \in 1..Len(r.issues)}
            RECURSIVE messages(_, _)
            messages(k, i) ==
                IF i = 0 THEN << >>
                ELSE IF key(i) = k THEN Append(messages(k, i - 1), r.issues[i].message)
                ELSE messages(k, i - 1)
        IN  /\ ~lib.threw
            /\ r.success => lib.result = Result_ok(r.data)
            /\ ~r.success =>
                   /\ lib.result._tag = "Err"
                   /\ lib.result.error.code = "VALIDATION_ERROR"
                   /\ DOMAIN lib.result.error.details = keys
                   /\ \A k \in keys :
                          lib.result.error.details[k] = messages(k, Len(r.issues))

\* The same mapping for issues whose joined path is no member of Object.prototype.
MappingOfPlainPaths ==
    (lib.made = "validate" /\ \A i \in 1..Len(lib.parsed.issues) :
                                  join(lib.parsed.issues[i].path) \notin ObjectPrototype)
        => C23_ValidationFailureMapping

\* C24: when refresh(t) returns Ok, both tokens of the new pair carry the sub and the jti
\* of t, and the store entry of the new refresh token is under the key of t's user and
\* session.
C24_RotationKeepsSession ==
    (last.op = "refresh" /\ last.res.tag = "Ok") =>
        LET t == last.arg
            k == getRefreshTokenKey(t.sub, t.jti)
        IN  /\ last.res.accessToken.sub = t.sub
            /\ last.res.accessToken.jti = t.jti
            /\ last.res.refreshToken.sub = t.sub
            /\ last.res.refreshToken.jti = t.jti
            /\ k \in DOMAIN store
            /\ store[k].hash = hash(last.res.refreshToken)

C24_Witness ==
    /\ last.op = "refresh"
    /\ last.res.tag = "Ok"
    /\ last.res.refreshToken # last.arg
    /\ last.arg.jti = 1
    /\ nextSid > 2

\* C25: no step of propagateToChildSpaces changes or removes an inventory record that is
\* in the table (every row stays, with the same fields, as many times as before), changes
\* the item it was called with, or changes the items table.
C25_PropagationFrame ==
    [][/\ inventories \sqsubseteq inventories'
       /\ items' = items
       /\ \A p \in Workers :
              run[p].op = "propagateToChildSpaces" =>
                  /\ run'[p].op = "propagateToChildSpaces" => run'[p].item = run[p].item
                  /\ run'[p].op = "none" =>
                         (ilast'.item = run[p].item /\ run[p].before \sqsubseteq inventories')
      ]_vars

C25_Witness ==
    /\ ilast.op = "propagateToChildSpaces"
    /\ ilast.res.tag = "Ok"
    /\ ilast.res.updatedCount > 0
    /\ ilast.before # EmptyBag
    /\ ilast.before \sqsubseteq inventories
    /\ \E row \in items : row.id = ilast.item.id

\* C26: verifyAccessToken does not touch the token store, and its result depends on the
\* token and the clock alone: a correctly signed token that has not expired verifies,
\* whatever the store holds, also after its session was signed out or rotated.
C26_AccessTokenStateless ==
    /\ [][\A p \in Procs :
              (pc'[p] # pc[p] /\ "verifyAccessToken" \in {op[p], op'[p]}) => store' = store
         ]_vars
    /\ [](last.op = "verifyAccessToken" =>
              LET t == last.arg IN
              /\ (t.sig = "HS256" /\ clock < t.exp) => last.res = OkPayload(t)
              /\ last.res.tag = "Ok" => (t.sig = "HS256" /\ clock <= t.exp)
              /\ (t.sig # "malformed" /\ clock > t.exp) => last.res.code = "TOKEN_EXPIRED"
              /\ t.sig = "malformed" => last.res.code = "INVALID_TOKEN")

C26_Witness ==
    /\ last.op = "verifyAccessToken"
    /\ last.res.tag = "Ok"
    /\ last.arg \in AccessTokens
    /\ KeyOf(last.arg) \in signedOut
    /\ KeyOf(last.arg) \notin DOMAIN store

\* an access token verifies after its session was rotated
AccessTokenOfRotatedSession ==
    /\ last.op = "verifyAccessToken"
    /\ last.res.tag = "Ok"
    /\ last.arg \in AccessTokens
    /\ \E r \in DOMAIN refreshedOk : KeyOf(r) = KeyOf(last.arg) /\ r.iat = last.arg.iat

\* C27: for a correctly signed token, verifyAccessToken and verifyRefreshToken return
\* Err(TokenExpiredError) exactly when the clock read by the verification has reached the
\* token's exp: at now = exp the token is refused as expired, at now = exp - 1 it is not.
C27_ExpiryBoundary ==
    (last.op \in {"verifyAccessToken", "verifyRefreshToken"} /\ last.arg.sig = "HS256") =>
        (last.res.code = "TOKEN_EXPIRED" <=> last.verifiedAt >= last.arg.exp)

C27_Witness ==
    /\ last.op = "verifyRefreshToken"
    /\ last.arg.sig = "HS256"
    /\ last.verifiedAt = last.arg.exp
    /\ last.res.code = "TOKEN_EXPIRED"
    /\ KeyOf(last.arg) \in DOMAIN store

\* a token presented in the last second before its exp is accepted
LastSecondAccepted ==
    /\ last.op \in {"verifyAccessToken", "verifyRefreshToken"}
    /\ last.verifiedAt = last.arg.exp - 1
    /\ last.res.tag = "Ok"

\* C28: generateTokenPair(userId, sessionId?) at clock value now signs an access token with
\* iat = now and exp = now + 900 and a refresh token with iat = now and exp = now + 604800,
\* both with sub = userId and one jti (the session id supplied, else one no token carries
\* yet), and when it returns Ok it has made exactly one store write: the hash of the
\* refresh token under the key of (userId, jti), with a TTL of 604800 seconds.
C28_IssueArithmetic ==
    [][\A p \in Procs :
          /\ (pc[p] = "generate" /\ pc'[p] = "setex") =>
                LET a == loc'[p].accessToken
                    r == loc'[p].refreshToken
                    given == op[p] = "refresh"
                    userId == IF given THEN loc[p].payload.sub ELSE uid[p]
                IN  /\ a.iat = clock /\ a.exp = clock + 900
                    /\ r.iat = clock /\ r.exp = clock + 604800
                    /\ a.sub = userId /\ r.sub = userId
                    /\ a.jti = r.jti
                    /\ a.sig = "HS256" /\ r.sig = "HS256"
                    /\ given => a.jti = loc[p].payload.jti
                    /\ ~given => \A t \in known : t.jti # a.jti
                    /\ store' = store
          /\ (pc[p] = "setex" /\ pc'[p] # "setex") =>
                LET r == loc[p].refreshToken
                    k == getRefreshTokenKey(r.sub, r.jti)
                IN  IF last'.res.tag = "Ok"
                    THEN /\ last'.res.accessToken = loc[p].accessToken
                         /\ last'.res.refreshToken = r
                         /\ DOMAIN store' = DOMAIN store \cup {k}
                         /\ \A x \in DOMAIN store \ {k} : store'[x] = store[x]
                         /\ store'[k] = [hash |-> hash(r), expireAt |-> clock + 604800]
                    ELSE store' = store
      ]_vars

C28_Witness ==
    /\ last.op = "issue"
    /\ last.res.tag = "Ok"
    /\ last.userId = 2
    /\ last.res.accessToken.iat = 899
    /\ last.res.accessToken.exp = 1799
    /\ last.res.refreshToken.exp = 605699
    /\ last.res.refreshToken.jti = 2
    /\ KeyOf(last.res.refreshToken) \in DOMAIN store
    /\ store[KeyOf(last.res.refreshToken)].expireAt = 605700

\* C29 (first half): a store entry never outlives the refresh token it was written for:
\* whenever an entry exists under a key, the clock is before the exp of the refresh token
\* whose hash the entry holds.
C29_EntryNeverOutlivesToken ==
    \A k \in DOMAIN store : clock < store[k].hash.of.exp

\* What holds of the entries: the TTL runs from the write, which comes no earlier than the
\* token's iat, and Redis drops the key at some moment of the second the TTL ends in.
EntryOutlivesByTheWriteDelay ==
    \A k \in DOMAIN store :
        /\ store[k].expireAt >= store[k].hash.of.exp
        /\ store[k].expireAt <= store[k].hash.of.exp + 1
        /\ clock <= store[k].expireAt

\* C29 (second half): the entry of a session that is neither rotated nor signed out goes
\* away by itself: an entry whose TTL ends within the instants of the model is in time
\* absent (or was written again by a rotation).
EntryExpiresByItself ==
    \A u \in Users : \A j \in 1..(TimeMaxIssues + 1) :
        LET k == getRefreshTokenKey(u, j) IN
        (k \in DOMAIN store /\ store[k].expireAt = REFRESH_TOKEN_EXPIRY_SECONDS)
            ~> (k \notin DOMAIN store \/ store[k].expireAt # REFRESH_TOKEN_EXPIRY_SECONDS)

\* C30: invalidateRefreshToken(t) decodes t without checking its signature or expiry; when
\* an entry exists under t's key it deletes the entry and returns Ok(true); when t cannot
\* be decoded or there is no entry it returns Err(InvalidTokenError) and leaves the store
\* as it is, so that a second invalidation with no issue in between fails with
\* InvalidTokenError.
C30_InvalidateSemantics ==
    [][/\ \A p \in Procs :
          (op[p] = "invalidateRefreshToken" /\ pc[p] = "invalidate" /\ pc'[p] = "idle") =>
                LET t == arg[p]
                    k == KeyOf(t)
                IN  IF decodes(t) /\ ~invalidFormat(t) /\ k \in DOMAIN store
                    THEN last'.res = OkBool(TRUE) /\ store' = Without(k)
                    ELSE last'.res.code = "INVALID_TOKEN" /\ store' = store
       /\ DOMAIN store' \subseteq DOMAIN store \/ \E q \in Procs : pc[q] = "setex"
      ]_vars

\* What invalidateRefreshToken does: as above, but a string that does not decode is
\* answered with DatabaseError.
InvalidateAsImplemented ==
    [][/\ \A p \in Procs :
          (op[p] = "invalidateRefreshToken" /\ pc[p] = "invalidate" /\ pc'[p] = "idle") =>
                LET t == arg[p]
                    k == KeyOf(t)
                IN  IF decodes(t) /\ ~invalidFormat(t) /\ k \in DOMAIN store
                    THEN last'.res = OkBool(TRUE) /\ store' = Without(k)
                    ELSE /\ store' = store
                         /\ last'.res.code =
                                IF decodes(t) THEN "INVALID_TOKEN" ELSE "DATABASE_ERROR"
       /\ DOMAIN store' \subseteq DOMAIN store \/ \E q \in Procs : pc[q] = "setex"
      ]_vars

\* a forged token and an expired token delete the entry of their session
InvalidatedWithoutVerification ==
    /\ last.op = "invalidateRefreshToken"
    /\ last.res = OkBool(TRUE)
    /\ last.arg.sig = "forged" \/ clock >= last.arg.exp

-----------------------------------------------------------------------------
(* Properties of the repositories *)

ItemReads == {"ItemRepository.findById", "ItemRepository.findAll",
              "ItemRepository.findAllWithQuery"}
UserReads == {"UserRepository.findById", "UserRepository.findAll",
              "UserRepository.findByEmail", "UserRepository.emailExists"}
Writes == {"ItemRepository.update", "ItemRepository.delete",
           "UserRepository.update", "UserRepository.delete"}

itemGone(id) == \E row \in items : row.id = id /\ row.deleted
userGone(id) == id \in DOMAIN users /\ users[id].deleted

\* the reads that do filter on deleted_at return no soft-deleted record, and an
\* update or delete of a soft-deleted id returns NOT_FOUND
QueriesThatFilter ==
    /\ ilast.op \in {"ItemRepository.findById", "ItemRepository.findAll"} =>
         \A r \in BagToSet(ilast.res.records) : ~itemGone(r.id)
    /\ ilast.op \in UserReads =>
         /\ \A r \in BagToSet(ilast.res.records) : ~userGone(r.id)
         /\ (ilast.op = "UserRepository.emailExists" /\ ilast.res.updatedCount = 1) =>
              ~userGone(ilast.item.id)
    /\ (ilast.op \in Writes /\ ilast.gone) =>
         (ilast.res.tag = "Err" /\ ilast.res.code = "NOT_FOUND")

\* soft-deleted items have status "archived" when requests come one at a time
DeletedIsArchived == \A row \in items : row.deleted => row.status = "archived"

\* C31 (as claimed): once delete(id) has succeeded, no read of either repository
\* - findById, findAll, findByEmail, emailExists, findAllWithQuery with any
\* status - returns the record, and an update or delete of the id returns
\* NOT_FOUND; findByIdIncludingDeleted alone still returns it.
C31_SoftDeletedExcluded ==
    /\ ilast.op \in ItemReads =>
         \A r \in BagToSet(ilast.res.records) : ~itemGone(r.id)
    /\ ilast.op \in UserReads =>
         /\ \A r \in BagToSet(ilast.res.records) : ~userGone(r.id)
         /\ (ilast.op = "UserRepository.emailExists" /\ ilast.res.updatedCount = 1) =>
              ~userGone(ilast.item.id)
    /\ (ilast.op \in Writes /\ ilast.gone) =>
         (ilast.res.tag = "Err" /\ ilast.res.code = "NOT_FOUND")
    /\ (ilast.op = "ItemRepository.findByIdIncludingDeleted" /\ itemGone(ilast.item.id)) =>
         ilast.res.records # EmptyBag

\* findAllWithQuery returns a soft-deleted item
C31_QueryReturnsDeleted ==
    /\ ilast.op = "ItemRepository.findAllWithQuery"
    /\ \E r \in BagToSet(ilast.res.records) : itemGone(r.id)

\* C37 (as claimed): whatever the interleaving of update and delete calls on one
\* id, an item whose deletedAt is set has status "archived", and no field of it
\* changes once the delete has completed.
C37_DeletedStaysArchived ==
    [][/\ \A row \in items' : row.deleted => row.status = "archived"
       /\ \A row \in items : row.deleted => row \in items']_vars

\* an update whose existence check came before a delete writes to the deleted item
C37_UpdateWritesDeleted ==
    /\ \E row \in items : row.deleted /\ (row.status # "archived" \/ row.name # "item")
    /\ ilast.op = "ItemRepository.update"
    /\ ilast.res.tag = "Ok"

-----------------------------------------------------------------------------
(* Properties of sessions *)

\* what verifyRefreshToken(t) returns when its three awaits happen in this state
verifiesNow(t) ==
    IF verify(t, clock) # "payload" \/ expiredAt(t, clock)
    THEN InvalidTokenError("Invalid refresh token")
    ELSE verifyRefreshToken_result(Has(KeyOf(t)),
                                   IF Has(KeyOf(t)) THEN store[KeyOf(t)].hash ELSE hash(NoTok),
                                   t, t)

\* C32: at any time at most one refresh-token string of a session (userId,
\* sessionId) passes verifyRefreshToken: the store keeps one hash per session
\* key and every issue overwrites it.
C32_OneLiveTokenPerSession ==
    \A t1 \in Tokens, t2 \in Tokens :
        (/\ KeyOf(t1) = KeyOf(t2)
         /\ verifiesNow(t1).tag = "Ok"
         /\ verifiesNow(t2).tag = "Ok") => t1 = t2

\* a session has been rotated: two unexpired refresh tokens of it are known, and
\* the one whose hash the entry holds passes while the other does not
C32_Witness ==
    \E t1 \in RefreshTokens, t2 \in RefreshTokens :
        /\ t1 # t2
        /\ KeyOf(t1) = KeyOf(t2)
        /\ verify(t1, clock) = "payload"
        /\ verify(t2, clock) = "payload"
        /\ t1 \in DOMAIN refreshedOk
        /\ verifiesNow(t1).tag = "Err"
        /\ verifiesNow(t2).tag = "Ok"

\* request p takes a step of its method
Steps(p) == pc[p] # "idle" /\ pc'[p] # pc[p]

\* the store entries of all sessions but that of key k are what they were
OthersKept(k) ==
    \A x \in (DOMAIN store \cup DOMAIN store') \ {k} :
        x \in DOMAIN store /\ x \in DOMAIN store' /\ store'[x] = store[x]

\* C33: a sign-in always writes under a session id that no token and no entry
\* carries; a step of refresh, signOut or invalidateRefreshToken on a token of
\* session (u, s) leaves the store entry of every other session unchanged.
C33_SessionIsolation ==
    [][\A p \in Procs :
         Steps(p) =>
           /\ (op[p] \in {"issue", "signIn", "signUp"} /\ pc[p] = "setex") =>
                LET k == getRefreshTokenKey(loc[p].payload.sub, loc[p].jti) IN
                /\ k \notin DOMAIN store
                /\ \A t \in known : t.jti # loc[p].jti
                /\ \A q \in Procs \ {p} : pc[q] = "setex" => loc[q].jti # loc[p].jti
                /\ OthersKept(k)
           /\ op[p] \in {"refresh", "signOut", "invalidateRefreshToken"} =>
                OthersKept(KeyOf(arg[p]))]_vars

\* a refresh or a signOut has succeeded while another session has its entry
C33_Witness ==
    /\ last.op \in {"refresh", "signOut"}
    /\ last.res.tag = "Ok"
    /\ \E k \in DOMAIN store : k # KeyOf(last.arg)

\* C34 (as claimed): signOut and refresh delete the entry of a session only if
\* the presented token is the one whose hash the entry holds at the moment of
\* the deletion: in no interleaving is the entry written for a newly issued
\* token deleted on behalf of the superseded one.
C34_DeletionMatchesVerification ==
    [][\A p \in Procs :
         (/\ Steps(p)
          /\ op[p] \in {"refresh", "signOut"}
          /\ pc[p] = "invalidate"
          /\ KeyOf(arg[p]) \in DOMAIN store
          /\ KeyOf(arg[p]) \notin DOMAIN store') =>
             argonVerify(store[KeyOf(arg[p])].hash, arg[p])]_vars

\* a signOut with a superseded token has returned Ok(true), and the token that
\* the concurrent refresh handed out for the session is rejected
C34_NewTokenSignedOut ==
    /\ last.op = "signOut"
    /\ last.res.tag = "Ok"
    /\ \E t \in RefreshTokens :
         /\ t # last.arg
         /\ KeyOf(t) = KeyOf(last.arg)
         /\ last.arg \in DOMAIN refreshedOk
         /\ t.iat > last.arg.iat
         /\ ~Has(KeyOf(t))

-----------------------------------------------------------------------------
(* Properties of sign-up *)

\* C35 (as claimed): whenever signUp returns Err - also when the user record
\* was created and the issue of the tokens failed after it - no user record for
\* the email remains that was not there before, so that a later signUp with the
\* email is rejected with EmailAlreadyExistsError only if a signUp with it
\* has succeeded.
C35_SignUpLeavesNoState ==
    (last.op = "signUp" /\ last.res.tag = "Err") =>
        /\ activeByEmail(users, last.arg.email) = activeByEmail(last.pre.users, last.arg.email)
        /\ last.res.code = "EMAIL_ALREADY_EXISTS" => last.arg.email \in signedUp

\* a signUp is rejected with EmailAlreadyExistsError for an email that no
\* successful signUp has registered
C35_RejectedAfterFailure ==
    /\ last.op = "signUp"
    /\ last.res.code = "EMAIL_ALREADY_EXISTS"
    /\ last.arg.email \notin signedUp

\* signUp returns Err and the table is as it was, unless the call got as far as
\* the insert of UserRepository.create
SignUpErrBeforeInsert ==
    (last.op = "signUp" /\ last.res.tag = "Err" /\ users # last.pre.users) =>
        /\ last.res.code = "DATABASE_ERROR"
        /\ last.threw

\* C36 (as claimed): in every interleaving of two signUp calls with one email at
\* most one returns a token pair, at most one user record with the email that
\* is not deleted exists afterwards, and the losing call returns
\* Err(EmailAlreadyExistsError).
C36_ConcurrentSignUp ==
    /\ \A e \in Emails : Cardinality(activeByEmail(users, e)) <= 1
    /\ Cardinality({t.sub : t \in known}) <= 1
    /\ (last.op = "signUp" /\ last.res.tag = "Err") => last.res.code = "EMAIL_ALREADY_EXISTS"

\* without a unique index: both calls have returned a pair, for two users of one email
C36_TwoAccounts ==
    /\ Cardinality(activeByEmail(users, "a@x")) = 2
    /\ Cardinality({t.sub : t \in known}) = 2

\* with a unique index: the losing call returns DatabaseError from the insert
C36_LoserGetsDatabaseError ==
    /\ last.op = "signUp"
    /\ last.res.code = "DATABASE_ERROR"
    /\ Cardinality(activeByEmail(users, "a@x")) = 1

-----------------------------------------------------------------------------
(* Properties of the cookie sessions *)

validated == legacy.op = "validateSessionToken" /\ legacy.pc = "done"

\* C38: validateSessionToken(token) returns a session only if a row exists for
\* the hash of the token and now < expiresAt; a session found at or after its
\* expiresAt is deleted and null is returned; a session found within 15 days of
\* its expiry is extended to now + 30 days, so that every session returned has
\* an expiresAt later than now + 15 days; after invalidateSession or
\* invalidateAllSessions the token validates to null. (now is the Date.now()
\* that validateSessionToken reads, legacy.at.)
C38_CookieSessions ==
    validated =>
      LET id == sessionIdOf(legacy.token) IN
      /\ legacy.returned \in {"session", "null"}
      /\ legacy.returned = "session" =>
           /\ legacy.found.id = id
           /\ legacy.at < legacy.found.expiresAt
           /\ legacy.session.expiresAt > legacy.at + SESSION_RENEWAL
           /\ id \in DOMAIN legacy.sessions
           /\ legacy.sessions[id] = legacy.session
           /\ id \notin legacy.invalidated
      /\ (legacy.found # NoRow /\ legacy.at >= legacy.found.expiresAt) =>
           /\ legacy.returned = "null"
           /\ id \notin DOMAIN legacy.sessions
      /\ (/\ legacy.found # NoRow
          /\ legacy.at < legacy.found.expiresAt
          /\ legacy.at >= legacy.found.expiresAt - SESSION_RENEWAL) =>
           /\ legacy.returned = "session"
           /\ legacy.session.expiresAt = legacy.at + SESSION_LIFETIME
      /\ (/\ legacy.found # NoRow
          /\ legacy.at < legacy.found.expiresAt - SESSION_RENEWAL) =>
           legacy.session = legacy.found

\* a session validated in the last second before its expiry is returned, extended
C38_Witness ==
    /\ validated
    /\ legacy.returned = "session"
    /\ legacy.at = legacy.found.expiresAt - 1
    /\ legacy.session.expiresAt = legacy.at + SESSION_LIFETIME

\* a session validated in the second of its expiry is deleted
C38_ExpiredDeleted ==
    /\ validated
    /\ legacy.returned = "null"
    /\ legacy.found # NoRow
    /\ legacy.at = legacy.found.expiresAt
    /\ sessionIdOf(legacy.token) \notin DOMAIN legacy.sessions

\* the token of an invalidated session validates to null
C38_InvalidatedIsNull ==
    /\ validated
    /\ legacy.returned = "null"
    /\ sessionIdOf(legacy.token) \in legacy.invalidated

====
